---- MODULE Spec2Model ----
(***************************************************************************)
(* Message-handling and tool-dispatch orchestrator of note-ai-backend-ts.  *)
(*                                                                         *)
(* The model follows one /send-message request from the route handler      *)
(* through handleMessage (context assembly, selection call, fan-out of     *)
(* executeToolCall over the proposed tool calls, composition call) to the  *)
(* best-effort conversation writes and the HTTP response.  The task store, *)
(* the conversation store, the identity provider and the model-inference   *)
(* provider are collaborators: each of their calls either succeeds or      *)
(* fails, chosen nondeterministically.                                     *)
(***************************************************************************)
EXTENDS Integers, Sequences, FiniteSets, TLC

(***************************************************************************)
(* JSON values.  Every value is a record whose field t is its type tag, so *)
(* that values of different JavaScript types can live in one set.          *)
(***************************************************************************)
Null == [t |-> "null"]

Undefined == [t |-> "undefined"]

S(s) == [t |-> "string", v |-> s]

N(n) == [t |-> "number", v |-> n]

B(b) == [t |-> "boolean", v |-> b]

A(a) == [t |-> "array", v |-> a]

O(o) == [t |-> "object", v |-> o]

EmptyObject == [k \in {} |-> Null]

\* value === null || value === undefined
IsNullish(v) == v.t \in {"null", "undefined"}

\* JavaScript truthiness, as used by `if (x)` and `x || y`
Truthy(v) ==
    CASE v.t \in {"null", "undefined"} -> FALSE
      [] v.t = "string" -> v.v # ""
      [] v.t = "number" -> v.v # 0
      [] v.t = "boolean" -> v.v
      [] OTHER -> TRUE

\* obj.key on a plain bag of properties: undefined when the key is absent
Prop(bag, k) == IF k \in DOMAIN bag THEN bag[k] ELSE Undefined

\* value?.key : undefined on null/undefined and on values without properties
OptProp(v, k) == IF v.t = "object" THEN Prop(v.v, k) ELSE Undefined

\* a || b
OrElse(a, b) == IF Truthy(a) THEN a ELSE b

\* the elements of a JSON array value (empty for anything else)
Elems(v) == IF v.t = "array" THEN v.v ELSE <<>>

\* arr?.length || 0
LengthOrZero(v) == IF v.t = "array" THEN Len(v.v) ELSE 0

\* the elements of a sequence, as a set
Range(s) == {s[i] : i \in DOMAIN s}

(***************************************************************************)
(* Argument strings.  The arguments of a tool call travel as text; the     *)
(* text is either the encoding of a JSON value or not JSON at all.         *)
(***************************************************************************)
JsonText(v) == [text |-> "json", value |-> v]

MalformedText == [text |-> "malformed"]

\* JSON.parse: a SyntaxError for text that is not JSON, else the value
JSONParse(text) ==
    IF text.text = "malformed"
    THEN [thrown |-> TRUE, message |-> "Unexpected token in JSON"]
    ELSE [thrown |-> FALSE, value |-> text.value]

\* array index i as a property key
IndexKey(i) == CASE i = 1 -> "0" [] i = 2 -> "1" [] i = 3 -> "2" [] OTHER -> "3"

\* Object.entries(rawArgs): own enumerable properties; throws on null
ObjectEntries(v) ==
    CASE v.t \in {"null", "undefined"} ->
            [thrown |-> TRUE,
             message |-> "Cannot convert undefined or null to object"]
      [] v.t = "object" -> [thrown |-> FALSE, bag |-> v.v]
      [] v.t = "array" ->
            [thrown |-> FALSE,
             bag |-> [k \in {IndexKey(i) : i \in DOMAIN v.v} |->
                        v.v[CHOOSE i \in DOMAIN v.v : IndexKey(i) = k]]]
      [] OTHER -> [thrown |-> FALSE, bag |-> EmptyObject]

\* a loop that keeps the truthy values only
CleanArgsTruthy(bag) == [k \in {key \in DOMAIN bag : Truthy(bag[key])} |-> bag[k]]

\* the loop of executeToolCall that keeps the non-null, non-undefined values
CleanArgs(bag) == [k \in {key \in DOMAIN bag : ~IsNullish(bag[key])} |-> bag[k]]

(***************************************************************************)
(* The task store: table public.tasks behind the Supabase client.          *)
(* A row is a bag of JSON values, one per column (Null when unset).        *)
(* Every store call takes its outcome `so`: the call succeeds, or the      *)
(* store reports an error with a message.                                  *)
(***************************************************************************)
StoreOk == [error |-> FALSE, message |-> ""]

StoreErr(m) == [error |-> TRUE, message |-> m]

StoreErrorMessages == {"", "connection refused"}

StoreOutcomes == {StoreOk} \cup {StoreErr(m) : m \in StoreErrorMessages}

\* the bigint a filter value denotes, 0 when it is not the text of a bigint
ParseId(v) ==
    CASE v.t = "string" ->
            (CASE v.v = "1" -> 1 [] v.v = "2" -> 2 [] v.v = "3" -> 3 [] v.v = "4" -> 4
               [] OTHER -> 0)
      [] v.t = "number" -> IF v.v >= 1 THEN v.v ELSE 0
      [] OTHER -> 0

\* the day (counted from 2025-10-01 = day 0) of a text accepted by the date
\* column due_date, -1000 for a text that is no date
DateDay(s) ==
    CASE s = "2025-09-30" -> -1
      [] s = "2025-10-01" -> 0
      [] s = "2025-10-02" -> 1
      [] s = "2025-10-02T10:00:00Z" -> 1
      [] s = "2025-10-09" -> 8
      [] OTHER -> -1000

\* the value a `date` column stores for an accepted text: the day only
DateColumn(s) ==
    CASE DateDay(s) = -1 -> "2025-09-30"
      [] DateDay(s) = 0 -> "2025-10-01"
      [] DateDay(s) = 1 -> "2025-10-02"
      [] DateDay(s) = 8 -> "2025-10-09"
      [] OTHER -> s

IsDateText(v) == v.t = "string" /\ DateDay(v.v) # -1000

SingleRowError == "JSON object requested, multiple (or no) rows returned"

BigintError == "invalid input syntax for type bigint"

DateError == "invalid input syntax for type date"

\* the columns the update of a row may carry, and the row after the update
ApplyColumns(row, cols) == [c \in DOMAIN row |-> IF c \in DOMAIN cols THEN cols[c] ELSE row[c]]

\* a due_date value as the date column stores it
StoredColumns(cols) ==
    [c \in DOMAIN cols |->
        IF c = "due_date" /\ IsDateText(cols[c]) THEN S(DateColumn(cols[c].v)) ELSE cols[c]]

\* does the store accept these column values (date syntax, NOT NULL content)
ColumnsError(cols) ==
    IF "due_date" \in DOMAIN cols /\ ~IsNullish(cols["due_date"]) /\ ~IsDateText(cols["due_date"])
    THEN DateError
    ELSE IF "content" \in DOMAIN cols /\ IsNullish(cols["content"])
    THEN "null value in column content violates not-null constraint"
    ELSE ""

\* defaults of the table: docs schema and migration 20241001000000
DefaultRow ==
    [id |-> Null, user_id |-> Null, content |-> Null, due_date |-> Null,
     priority |-> S("P2"), status |-> S("open"), labels |-> A(<<>>),
     duration_minutes |-> Null, notes |-> Null]

\* the store after it received one more call (calls counts the calls received
\* since the request arrived, atRequest keeps the rows it held at that time)
Called(db) == [db EXCEPT !.calls = @ + 1]

\* from('tasks').insert([taskData]).select('id').single()
DbInsert(db, taskData, so) ==
    IF so.error THEN [error |-> TRUE, message |-> so.message, db |-> Called(db), id |-> 0]
    ELSE IF ColumnsError(ApplyColumns(DefaultRow, taskData)) # ""
    THEN [error |-> TRUE, message |-> ColumnsError(ApplyColumns(DefaultRow, taskData)),
          db |-> Called(db), id |-> 0]
    ELSE [error |-> FALSE, message |-> "",
          db |-> [Called(db) EXCEPT
                    !.tasks = @ \cup
                        {[ApplyColumns(DefaultRow, StoredColumns(taskData))
                            EXCEPT !.id = N(db.nextId)]},
                    !.nextId = @ + 1],
          id |-> db.nextId]

\* from('tasks').update(dbUpdates).eq('user_id', userId).eq('id', id)
DbUpdate(db, userId, idv, dbUpdates, so) ==
    IF so.error THEN [error |-> TRUE, message |-> so.message, db |-> Called(db)]
    ELSE IF ParseId(idv) = 0 THEN [error |-> TRUE, message |-> BigintError, db |-> Called(db)]
    ELSE IF ColumnsError(dbUpdates) # ""
    THEN [error |-> TRUE, message |-> ColumnsError(dbUpdates), db |-> Called(db)]
    ELSE [error |-> FALSE, message |-> "",
          db |-> [Called(db) EXCEPT !.tasks =
                    {IF r.user_id = S(userId) /\ r.id = N(ParseId(idv))
                     THEN ApplyColumns(r, StoredColumns(dbUpdates)) ELSE r : r \in db.tasks}]]

\* a delete that filters by id only
DbDeleteById(db, userId, idv, so) ==
    IF so.error THEN [error |-> TRUE, message |-> so.message, db |-> Called(db)]
    ELSE IF ParseId(idv) = 0 THEN [error |-> TRUE, message |-> BigintError, db |-> Called(db)]
    ELSE [error |-> FALSE, message |-> "",
          db |-> [Called(db) EXCEPT !.tasks = {r \in db.tasks : r.id # N(ParseId(idv))}]]

\* from('tasks').delete().eq('user_id', userId).eq('id', id)
DbDelete(db, userId, idv, so) ==
    IF so.error THEN [error |-> TRUE, message |-> so.message, db |-> Called(db)]
    ELSE IF ParseId(idv) = 0 THEN [error |-> TRUE, message |-> BigintError, db |-> Called(db)]
    ELSE [error |-> FALSE, message |-> "",
          db |-> [Called(db) EXCEPT !.tasks =
                    {r \in db.tasks : ~(r.user_id = S(userId) /\ r.id = N(ParseId(idv)))}]]

\* from('tasks').select(..).eq('id', id).eq('user_id', userId).single()
DbSelectSingle(db, userId, idv, so) ==
    IF so.error THEN [error |-> TRUE, message |-> so.message, data |-> Null, db |-> Called(db)]
    ELSE IF ParseId(idv) = 0
    THEN [error |-> TRUE, message |-> BigintError, data |-> Null, db |-> Called(db)]
    ELSE IF \E r \in db.tasks : r.user_id = S(userId) /\ r.id = N(ParseId(idv))
    THEN [error |-> FALSE, message |-> "",
          data |-> O(CHOOSE r \in db.tasks : r.user_id = S(userId) /\ r.id = N(ParseId(idv))),
          db |-> Called(db)]
    ELSE [error |-> TRUE, message |-> SingleRowError, data |-> Null, db |-> Called(db)]

(***************************************************************************)
(* Results of the asynchronous functions: a value, or a thrown Error with  *)
(* its message; db is the store after the call.                            *)
(***************************************************************************)
Return(value, db) == [thrown |-> FALSE, message |-> "", value |-> value, db |-> db]

Throw(message, db) == [thrown |-> TRUE, message |-> message, value |-> Null, db |-> db]

\* addTask
addTask(db, userId, title, dueDate, priority, labels, durationMinutes, notes, so) ==
    LET taskData ==
            [c \in {"user_id", "content", "status"}
                   \cup (IF Truthy(dueDate) THEN {"due_date"} ELSE {})
                   \cup (IF Truthy(priority) THEN {"priority"} ELSE {})
                   \cup (IF Truthy(labels) THEN {"labels"} ELSE {})
                   \cup (IF durationMinutes.t # "undefined" THEN {"duration_minutes"} ELSE {})
                   \cup (IF Truthy(notes) THEN {"notes"} ELSE {}) |->
                CASE c = "user_id" -> S(userId)
                  [] c = "content" -> IF title.t = "undefined" THEN Null ELSE title
                  [] c = "status" -> S("open")
                  [] c = "due_date" -> dueDate
                  [] c = "priority" -> priority
                  [] c = "labels" -> labels
                  [] c = "duration_minutes" -> durationMinutes
                  [] OTHER -> notes]
        Inserted(ins) ==
            IF ins.error
            THEN Throw("Failed to add task: " \o ins.message, ins.db)
            ELSE Return(N(ins.id), ins.db)
    IN  Inserted(DbInsert(db, taskData, so))

\* deleteTask
deleteTask(db, userId, taskId, so) ==
    LET Deleted(del) ==
            IF del.error
            THEN Throw("Failed to delete task: " \o del.message, del.db)
            ELSE Return(Undefined, del.db)
    IN  Deleted(DbDelete(db, userId, taskId, so))

\* the field of `updates` that feeds column c in updateTask
UpdateField(c) ==
    CASE c = "content" -> "title"
      [] c = "due_date" -> "due"
      [] OTHER -> c

\* updateTask
updateTask(db, userId, taskIdentifier, updates, so) ==
    IF IsNullish(updates)
    THEN Throw("Cannot read properties of undefined (reading 'title')", db)
    ELSE
    LET dbUpdates ==
            [c \in {col \in {"content", "due_date", "priority", "labels",
                             "duration_minutes", "notes", "status"} :
                        Truthy(OptProp(updates, UpdateField(col)))} |->
                OptProp(updates, UpdateField(c))]
        Updated(upd) ==
            IF upd.error
            THEN Throw("Failed to update task: " \o upd.message, upd.db)
            ELSE Return(Undefined, upd.db)
    IN  Updated(DbUpdate(db, userId, taskIdentifier, dbUpdates, so))

(***************************************************************************)
(* Listing: filters and ordering as the store evaluates them.              *)
(***************************************************************************)
\* position of a text column value in the store's text ordering
TextRank(v) ==
    CASE v.t # "string" -> 100
      [] v.v = "P0" -> 0 [] v.v = "P1" -> 1 [] v.v = "P2" -> 2 [] v.v = "P3" -> 3
      [] OTHER -> 9

\* the sort key of a row under order('<column>'); NULL sorts as the largest
ColumnRank(r, column) ==
    CASE column = "due_date" ->
            (IF r.due_date.t = "string" THEN DateDay(r.due_date.v) ELSE 1000)
      [] column = "priority" -> TextRank(r.priority)
      [] OTHER -> 0

RECURSIVE SortRows(_, _, _)
\* the rows in the order of order(column, {ascending}); ties by id
SortRows(rows, column, ascending) ==
    IF rows = {} THEN <<>>
    ELSE LET key(r) == IF ascending THEN ColumnRank(r, column) ELSE 0 - ColumnRank(r, column)
             first == CHOOSE r \in rows :
                        \A q \in rows :
                            key(r) < key(q) \/ (key(r) = key(q) /\ r.id.v <= q.id.v)
         IN  <<O(first)>> \o SortRows(rows \ {first}, column, ascending)

\* sort.split('_') : the column ordered by and the direction
SortColumn(sort) ==
    CASE sort \in {"due_asc", "due_desc"} -> "due_date"
      [] sort \in {"priority_asc", "priority_desc"} -> "priority"
      [] OTHER -> "created"

SortAscending(sort) == sort \in {"due_asc", "priority_asc", "created_asc"}

\* a listing answered from the rows the store held when the request arrived
listTasksAtRequest(db, userId, filterArg, sortArg, so) ==
    IF so.error THEN Throw("Failed to list tasks: " \o so.message, Called(db))
    ELSE Return(A(SortRows({r \in db.atRequest : r.user_id = S(userId)}, "due_date", TRUE)),
                Called(db))

\* listTasksWithFilters
listTasksWithFilters(db, userId, filterArg, sortArg, so) ==
    LET filter == IF filterArg.t = "undefined" THEN O(EmptyObject) ELSE filterArg
        sort == IF sortArg.t = "undefined" THEN S("due_asc") ELSE sortArg
        pal == OptProp(filter, "priority_at_least")
        before == OptProp(filter, "due_before")
        after == OptProp(filter, "due_after")
        status == OptProp(filter, "status")
        labelsAny == OptProp(filter, "labels_any")
        Matches(r) ==
            /\ r.user_id = S(userId)
            /\ Truthy(pal) => (r.priority.t = "string" /\ TextRank(r.priority) >= TextRank(pal))
            /\ Truthy(before) =>
                  (r.due_date.t = "string" /\ DateDay(r.due_date.v) <= DateDay(before.v))
            /\ Truthy(after) =>
                  (r.due_date.t = "string" /\ DateDay(r.due_date.v) >= DateDay(after.v))
            /\ Truthy(status) => r.status = status
            /\ (Truthy(labelsAny) /\ LengthOrZero(labelsAny) > 0) =>
                  (Range(Elems(r.labels)) \cap Range(Elems(labelsAny)) # {})
        queryError ==
            IF so.error THEN so.message
            ELSE IF Truthy(before) /\ ~IsDateText(before) THEN DateError
            ELSE IF Truthy(after) /\ ~IsDateText(after) THEN DateError
            ELSE IF Truthy(sort) /\ SortColumn(sort.v) = "created"
            THEN "column tasks.created does not exist"
            ELSE ""
    IN  IF Truthy(sort) /\ sort.t # "string"
        THEN Throw("sort.split is not a function", db)
        ELSE IF so.error \/ queryError # ""
        THEN Throw("Failed to list tasks: " \o queryError, Called(db))
        ELSE IF Truthy(sort)
        THEN Return(A(SortRows({r \in db.tasks : Matches(r)},
                               SortColumn(sort.v), SortAscending(sort.v))), Called(db))
        ELSE Return(A(SortRows({r \in db.tasks : Matches(r)}, "id", TRUE)), Called(db))

\* scheduleTasksToCalendar
scheduleTasksToCalendar(db, userId, params) ==
    Return(O([scheduled |-> N(LengthOrZero(Prop(params, "task_ids"))),
              blocks |-> A(<<>>),
              message |-> S("Calendar scheduling not yet implemented")]), db)

\* rescheduleTasks
rescheduleTasks(db, userId, params) ==
    Return(O([rescheduled |-> N(LengthOrZero(Prop(params, "task_ids"))),
              conflicts_resolved |-> N(0),
              message |-> S("Rescheduling not yet implemented")]), db)

(***************************************************************************)
(* Deadline risks.  Instants are counted in hours from 2025-10-01T00:00Z;  *)
(* a due date is the midnight that starts its day.                         *)
(***************************************************************************)
HoursPerDay == 24

\* Math.floor(a / b) for b > 0
FloorDiv(a, b) == a \div b

\* Math.ceil(a / b) for b > 0
CeilDiv(a, b) == 0 - ((0 - a) \div b)

RECURSIVE MapRisks(_, _, _)
\* tasks.map(...).filter(r => r.at_risk || r.overdue)
MapRisks(tasks, now, thresholdDays) ==
    IF tasks = <<>> THEN <<>>
    ELSE LET task == Head(tasks).v
             daysUntilDue == CeilDiv(DateDay(task.due_date.v) * HoursPerDay - now, HoursPerDay)
             risk == [task_id |-> task.id,
                      task_title |-> task.content,
                      due_date |-> task.due_date,
                      days_until_due |-> N(daysUntilDue),
                      at_risk |-> B(daysUntilDue <= thresholdDays /\ daysUntilDue >= 0),
                      overdue |-> B(daysUntilDue < 0)]
         IN  (IF risk.at_risk.v \/ risk.overdue.v THEN <<O(risk)>> ELSE <<>>)
                \o MapRisks(Tail(tasks), now, thresholdDays)

\* checkDeadlineRisks
checkDeadlineRisks(db, userId, params, now, so) ==
    LET taskIds == OrElse(Prop(params, "task_ids"), Null)
        thresholdDays == OrElse(Prop(params, "threshold_days"), N(7))
        byIds == Truthy(taskIds) /\ LengthOrZero(taskIds) > 0
        rows == {r \in db.tasks :
                    /\ r.user_id = S(userId)
                    /\ r.due_date.t = "string"
                    /\ byIds => \E i \in DOMAIN taskIds.v : r.id = N(ParseId(taskIds.v[i]))}
        queryError ==
            IF so.error THEN so.message
            ELSE IF byIds /\ \E i \in DOMAIN taskIds.v : ParseId(taskIds.v[i]) = 0
            THEN BigintError
            ELSE ""
        risks == MapRisks(SortRows(rows, "id", TRUE), now, thresholdDays.v)
    IN  IF so.error \/ queryError # ""
        THEN Throw("Failed to check deadline risks: " \o queryError, Called(db))
        ELSE Return(O([risks |-> A(risks), total_at_risk |-> N(Len(risks))]), Called(db))

(***************************************************************************)
(* Priority score.  Weights and products are counted in hundredths         *)
(* (0.3 is 30), so that the arithmetic stays in the integers.              *)
(***************************************************************************)
NaN == [t |-> "NaN"]

\* a * b on JavaScript numbers
Times(a, b) == IF a.t = "number" /\ b.t = "number" THEN N(a.v * b.v) ELSE NaN

DefaultWeights == O([impact |-> N(30), urgency |-> N(30), effort |-> N(20), risk |-> N(20)])

\* priorityMap[task.priority] || 50
BaseScore(priority) ==
    CASE priority.t # "string" -> 50
      [] priority.v = "P0" -> 100
      [] priority.v = "P1" -> 75
      [] priority.v = "P2" -> 50
      [] priority.v = "P3" -> 25
      [] OTHER -> 50

\* String(value) inside a template literal
ToText(v) ==
    CASE v.t = "string" -> v.v
      [] v.t = "null" -> "null"
      [] v.t = "undefined" -> "undefined"
      [] v.t = "boolean" -> IF v.v THEN "true" ELSE "false"
      [] v.t = "number" ->
            (CASE v.v = 1 -> "1" [] v.v = 2 -> "2" [] v.v = 3 -> "3" [] v.v = 4 -> "4"
               [] v.v = 25 -> "25" [] v.v = 50 -> "50" [] v.v = 75 -> "75"
               [] v.v = 100 -> "100" [] OTHER -> "n")
      [] OTHER -> "[object Object]"

\* calculatePriorityScore
calculatePriorityScore(db, userId, taskId, weights, so) ==
    LET Score(task, w, baseScore) ==
            O([total |-> baseScore,
               breakdown |-> O([impact |-> Times(baseScore, OptProp(w, "impact")),
                                urgency |-> Times(baseScore, OptProp(w, "urgency")),
                                effort |-> Times(baseScore, OptProp(w, "effort")),
                                risk |-> Times(baseScore, OptProp(w, "risk"))]),
               explanation |-> S("Task scored " \o ToText(baseScore)
                                    \o " based on priority "
                                    \o ToText(OptProp(task, "priority")))])
        Selected(sel) ==
            IF sel.error
            THEN Throw("Failed to get task: " \o sel.message, sel.db)
            ELSE Return(Score(sel.data, OrElse(weights, DefaultWeights),
                              N(BaseScore(OptProp(sel.data, "priority")))), sel.db)
    IN  Selected(DbSelectSingle(db, userId, taskId, so))

(***************************************************************************)
(* Bulk update.  `sos` gives the outcomes of the store calls of the        *)
(* operation: target number j uses sos[2j-1] for its read and sos[2j] for  *)
(* its write.                                                              *)
(***************************************************************************)
RECURSIVE Dedupe(_)
\* Array.from(new Set(seq)): first occurrences, in order
Dedupe(seq) ==
    IF seq = <<>> THEN <<>>
    ELSE LET rest == Dedupe(SubSeq(seq, 1, Len(seq) - 1))
         IN  IF seq[Len(seq)] \in Range(rest) THEN rest ELSE Append(rest, seq[Len(seq)])

\* one iteration of the loop of bulkUpdateTasks: the try block for one target
\* lines 331-336: the write of a relabel, from the row `task` that was read
RelabelWrite(db, userId, taskId, opParams, task, soWrite) ==
    updateTask(db, userId, taskId,
        O([labels |->
            A(Dedupe(Elems(OrElse(OptProp(task, "labels"), A(<<>>)))
                        \o Elems(OptProp(opParams, "labels_add"))))]),
        soWrite)

\* lines 350-354: the counters after the step of one target
BulkCount(results, taskId, step) ==
    IF step.thrown
    THEN [results EXCEPT
            !.failed = N(@.v + 1),
            !.errors = A(Append(@.v, S("Task " \o ToText(taskId) \o ": " \o step.message)))]
    ELSE [results EXCEPT !.success = N(@.v + 1)]

BulkTarget(db, userId, taskId, operation, opParams, soRead, soWrite) ==
    CASE operation = S("relabel") ->
            IF Truthy(OptProp(opParams, "labels_add"))
            THEN LET Relabel(sel) ==
                        RelabelWrite(sel.db, userId, taskId, opParams, sel.data, soWrite)
                 IN  Relabel(DbSelectSingle(db, userId, taskId, soRead))
            ELSE Return(Undefined, db)
      [] operation = S("archive") ->
            updateTask(db, userId, taskId, O([status |-> S("archived")]), soWrite)
      [] operation = S("delete") -> deleteTask(db, userId, taskId, soWrite)
      [] OTHER -> Return(Undefined, db)

RECURSIVE BulkLoop(_, _, _, _, _, _, _, _)
\* for (const taskId of task_ids) { try { ... results.success++ } catch { ... } }
BulkLoop(db, userId, taskIds, j, operation, opParams, sos, results) ==
    IF j > Len(taskIds) THEN Return(O(results), db)
    ELSE LET Counted(step) ==
                BulkLoop(step.db, userId, taskIds, j + 1, operation, opParams, sos,
                         BulkCount(results, taskIds[j], step))
         IN  Counted(BulkTarget(db, userId, taskIds[j], operation, opParams,
                                sos[2 * j - 1], sos[2 * j]))

\* line 316: the counters before the first target
NoResults == [success |-> N(0), failed |-> N(0), errors |-> A(<<>>)]

\* bulkUpdateTasks
bulkUpdateTasks(db, userId, params, sos) ==
    LET task_ids == Prop(params, "task_ids")
        operation == Prop(params, "operation")
        opParams == Prop(params, "params")
    IN  IF ~Truthy(task_ids) \/ (task_ids.t = "array" /\ Len(task_ids.v) = 0)
        THEN Throw("No task IDs provided", db)
        ELSE IF task_ids.t # "array"
        THEN Throw("task_ids is not iterable", db)
        ELSE BulkLoop(db, userId, task_ids.v, 1, operation, opParams, sos, NoResults)

(***************************************************************************)
(* The model-inference provider.  A call either returns a completion or    *)
(* throws the client's error.                                              *)
(***************************************************************************)
ModelOk(message) == [error |-> FALSE, errorMessage |-> "", message |-> message]

ModelErr(m) == [error |-> TRUE, errorMessage |-> m, message |-> Undefined]

ProviderErrorMessages == {"Connection error."}

\* generateTaskBrief
generateTaskBrief(db, input, options, mo) ==
    IF mo.error THEN Throw(mo.errorMessage, db)
    ELSE LET content == OrElse(OptProp(mo.message, "content"), S(""))
         IN  Return(O([summary |-> content,
                       acceptance_criteria |->
                            IF Truthy(Prop(options, "generate_acceptance_criteria"))
                            THEN A(<<S("Criteria 1"), S("Criteria 2")>>) ELSE Undefined,
                       subtasks |->
                            IF Truthy(Prop(options, "generate_subtasks"))
                            THEN A(<<S("Subtask 1"), S("Subtask 2")>>) ELSE Undefined]), db)

\* undoLastAction
undoLastAction(db, userId, actionId) ==
    Return(O([undone |-> B(FALSE),
              message |-> S("Undo functionality requires audit_log table setup"),
              action_id |-> actionId]), db)

(***************************************************************************)
(* executeToolCall.  A tool call is [id, name, arguments]; env carries the *)
(* outcomes of the collaborator calls the operation makes: sos for the     *)
(* store, mo for the model, now for the clock.                             *)
(***************************************************************************)
\* lines 413-422: parse the argument string and drop the null values;
\* a throw here is outside the try block
ParseArguments(toolCall) ==
    LET parsed == JSONParse(toolCall.arguments)
    IN  IF parsed.thrown
        THEN [thrown |-> TRUE, message |-> parsed.message, args |-> EmptyObject]
        ELSE LET entries == ObjectEntries(parsed.value)
             IN  IF entries.thrown
                 THEN [thrown |-> TRUE, message |-> entries.message, args |-> EmptyObject]
                 ELSE [thrown |-> FALSE, message |-> "", args |-> CleanArgs(entries.bag)]

\* the value an operation's case returns once its helper has returned
Success(op, fields) ==
    IF op.thrown THEN op
    ELSE Return(O([k \in {"success"} \cup DOMAIN fields |->
                      IF k = "success" THEN B(TRUE) ELSE fields[k]]), op.db)

\* lines 425-544: the switch over the operation name
Operation(db, functionName, args, userId, env) ==
    CASE functionName = "create_task" ->
            LET Case(op) ==
                    Success(op, [task_id |-> op.value,
                                 message |-> S("Task \"" \o ToText(Prop(args, "title"))
                                                  \o "\" created successfully")])
            IN  Case(addTask(db, userId, Prop(args, "title"), Prop(args, "due"),
                             Prop(args, "priority"), Prop(args, "labels"),
                             Prop(args, "duration_minutes"), Prop(args, "notes"), env.sos[1]))
      [] functionName = "update_task" ->
            Success(updateTask(db, userId,
                               OrElse(Prop(args, "task_id"), Prop(args, "fuzzy_key")),
                               Prop(args, "set"), env.sos[1]),
                    [message |-> S("Task updated successfully")])
      [] functionName = "list_tasks" ->
            LET Case(op) ==
                    Success(op, [tasks |-> op.value, count |-> N(LengthOrZero(op.value))])
            IN  Case(listTasksWithFilters(db, userId, Prop(args, "filter"),
                                          Prop(args, "sort"), env.sos[1]))
      [] functionName = "schedule_tasks_to_calendar" ->
            LET Case(op) ==
                    Success(op, [schedule |-> op.value,
                                 preview_only |-> Prop(args, "preview_only")])
            IN  Case(scheduleTasksToCalendar(db, userId, args))
      [] functionName = "reschedule_tasks" ->
            LET Case(op) == Success(op, [new_schedule |-> op.value])
            IN  Case(rescheduleTasks(db, userId, args))
      [] functionName = "check_deadline_risks" ->
            LET Case(op) == Success(op, [risks |-> op.value])
            IN  Case(checkDeadlineRisks(db, userId, args, env.now, env.sos[1]))
      [] functionName = "calculate_priority_score" ->
            LET Case(op) ==
                    Success(op, [score |-> op.value,
                                 explanation |-> OptProp(op.value, "explanation")])
            IN  Case(calculatePriorityScore(db, userId, Prop(args, "task_id"),
                                            Prop(args, "weights"), env.sos[1]))
      [] functionName = "bulk_update_tasks" ->
            LET Case(op) == Success(op, [results |-> op.value])
            IN  Case(bulkUpdateTasks(db, userId, args, env.sos))
      [] functionName = "generate_task_brief" ->
            LET Case(op) == Success(op, [brief |-> op.value])
            IN  Case(generateTaskBrief(db, Prop(args, "short_input"), args, env.mo))
      [] functionName = "undo_last_action" ->
            LET Case(op) == Success(op, [undone |-> op.value])
            IN  Case(undoLastAction(db, userId, Prop(args, "action_id")))
      [] functionName = "ask_clarification" ->
            Return(O([success |-> B(TRUE),
                      needs_clarification |-> B(TRUE),
                      missing_fields |-> Prop(args, "missing_fields"),
                      context |-> Prop(args, "context"),
                      suggestions |-> Prop(args, "suggestions")]), db)
      [] OTHER -> Return(O([success |-> B(FALSE), error |-> S("Unknown tool")]), db)

\* how a call of executeToolCall can settle
Fulfilled(toolCall, output, db) ==
    [rejected |-> FALSE, reason |-> "",
     result |-> [tool_call_id |-> toolCall.id, output |-> output], db |-> db]

Rejected(toolCall, reason, db) ==
    [rejected |-> TRUE, reason |-> reason,
     result |-> [tool_call_id |-> "", output |-> Undefined], db |-> db]

\* a catch block that rethrows instead of reporting the error as data
CatchBlockRethrows(toolCall, op) == Rejected(toolCall, op.message, op.db)

\* lines 545-551: the catch block around the switch
CatchBlock(toolCall, op) ==
    Fulfilled(toolCall, O([success |-> B(FALSE), error |-> S(op.message)]), op.db)

\* lines 424-551: the try block: the switch, and the catch block when it throws
Dispatch(db, toolCall, args, userId, env) ==
    LET Try(op) ==
            IF op.thrown THEN CatchBlock(toolCall, op) ELSE Fulfilled(toolCall, op.value, op.db)
    IN  Try(Operation(db, toolCall.name, args, userId, env))

RECURSIVE JsonOf(_)
\* what JSON.stringify keeps of a value: no undefined property, null for
\* undefined elements and for NaN
JsonOf(v) ==
    CASE v.t = "object" ->
            O([k \in {key \in DOMAIN v.v : v.v[key].t # "undefined"} |-> JsonOf(v.v[k])])
      [] v.t = "array" -> A([i \in DOMAIN v.v |-> JsonOf(v.v[i])])
      [] v.t \in {"NaN", "undefined"} -> Null
      [] OTHER -> v

\* JSON.stringify
JSONStringify(v) == JsonText(JsonOf(v))

(***************************************************************************)
(* The conversation store: table public.memories, oldest row first.        *)
(***************************************************************************)
HISTORY_LIMIT == 30

\* the first n elements of a sequence: the oldest rows instead of the newest
FirstN(seq, n) == IF Len(seq) <= n THEN seq ELSE SubSeq(seq, 1, n)

\* the last n elements of a sequence
LastN(seq, n) == IF Len(seq) <= n THEN seq ELSE SubSeq(seq, Len(seq) - n + 1, Len(seq))

\* getRecentMessages: the newest `limit` rows of the user, oldest first
getRecentMessages(mem, userId, limit, so) ==
    IF ~Truthy(userId) THEN [thrown |-> TRUE, message |-> "userId is required", value |-> <<>>]
    ELSE IF so.error
    THEN [thrown |-> TRUE, message |-> "Failed to get recent messages: " \o so.message,
          value |-> <<>>]
    ELSE LET Mine(row) == row.user_id = userId
         IN  [thrown |-> FALSE, message |-> "", value |-> LastN(SelectSeq(mem, Mine), limit)]

\* embed: the embedding call either yields a vector or throws
EmbedOutcomes == {StoreOk, StoreErr("Ollama API error: 500")}

\* a write that keeps one row per user: it overwrites the user's newest row
storeMemoryUpsert(mem, userId, text, role, eo, so) ==
    IF ~Truthy(userId) \/ ~Truthy(text) \/ role \notin {S("user"), S("ai")}
          \/ eo.error \/ so.error
    THEN [thrown |-> TRUE, message |-> "rejected", mem |-> mem]
    ELSE IF \E i \in DOMAIN mem : mem[i].user_id = userId
    THEN [thrown |-> FALSE, message |-> "",
          mem |-> [mem EXCEPT ![CHOOSE i \in DOMAIN mem :
                                    /\ mem[i].user_id = userId
                                    /\ \A j \in DOMAIN mem : mem[j].user_id = userId => j <= i] =
                                 [user_id |-> userId, content |-> text, role |-> role]]]
    ELSE [thrown |-> FALSE, message |-> "",
          mem |-> Append(mem, [user_id |-> userId, content |-> text, role |-> role])]

\* storeMemory
storeMemory(mem, userId, text, role, eo, so) ==
    IF ~Truthy(userId) THEN [thrown |-> TRUE, message |-> "userId is required", mem |-> mem]
    ELSE IF ~Truthy(text) THEN [thrown |-> TRUE, message |-> "text is required", mem |-> mem]
    ELSE IF ~Truthy(role) \/ role \notin {S("user"), S("ai")}
    THEN [thrown |-> TRUE, message |-> "role must be \"user\" or \"ai\"", mem |-> mem]
    ELSE IF eo.error THEN [thrown |-> TRUE, message |-> eo.message, mem |-> mem]
    ELSE IF so.error
    THEN [thrown |-> TRUE, message |-> "Failed to insert memory: " \o so.message, mem |-> mem]
    ELSE [thrown |-> FALSE, message |-> "",
          mem |-> Append(mem, [user_id |-> userId, content |-> text, role |-> role])]

(***************************************************************************)
(* The identity provider.                                                  *)
(***************************************************************************)
\* the users the identity provider knows, with their metadata
RegisteredUsers == {"u1", "u2"}

FirstName(u) == IF u = "u1" THEN S("Ann") ELSE Undefined

IdentityOutcomes == {"answers", "error", "throws"}

\* authenticateUser
authenticateUser(userId, io) ==
    IF io = "throws" THEN [authenticated |-> FALSE, profile |-> Undefined]
    ELSE IF io = "error" \/ userId.t # "string" \/ userId.v \notin RegisteredUsers
    THEN [authenticated |-> FALSE, profile |-> Undefined]
    ELSE [authenticated |-> TRUE, profile |-> O([first_name |-> FirstName(userId.v)])]

(***************************************************************************)
(* handleMessage: the replies it can settle with.                          *)
(***************************************************************************)
ERROR_REPLY == "Sorry, I encountered an error processing your request."

NO_RESPONSE_REPLY == "Sorry, I couldn't generate a response."

ACTION_COMPLETED == "Action completed."

\* new Date().toISOString() at the time of the request
CurrentDate == "2025-10-01T12:00:00.000Z"

\* a transcript entry
Message(role, content, toolCallId, toolCalls) ==
    [role |-> role, content |-> content, tool_call_id |-> toolCallId, tool_calls |-> toolCalls]

\* lines 563-579: the transcript handed to the selection call
Transcript(conversationHistory, message, profile) ==
    LET userName == IF Truthy(OptProp(profile, "first_name"))
                    THEN " " \o OptProp(profile, "first_name").v ELSE ""
        preamble == "You are a helpful daily planner assistant"
                        \o (IF userName # "" THEN " for " \o userName ELSE "")
                        \o ". Use the available tools to help users manage tasks, "
                        \o "schedules, and journals. Current date: " \o CurrentDate
                        \o ". Be concise and friendly."
    IN  <<Message("system", S(preamble), "", Undefined)>>
            \o [i \in DOMAIN conversationHistory |->
                    Message(IF conversationHistory[i].role = S("ai") THEN "assistant" ELSE "user",
                            conversationHistory[i].content, "", Undefined)]
            \o <<Message("user", message, "", Undefined)>>

\* what handleMessage has settled with: nothing yet, a returned response, or a throw
Pending == [state |-> "pending", reply |-> Undefined, optional_data |-> Undefined]

Returned(reply, optionalData) ==
    [state |-> "returned", reply |-> reply, optional_data |-> optionalData]

Thrown == [state |-> "thrown", reply |-> Undefined, optional_data |-> Undefined]

\* a catch block that lets the error escape handleMessage
HandleMessageRethrows == Thrown

\* lines 631-634: the catch block of handleMessage
HandleMessageCatch == Returned(S(ERROR_REPLY), Undefined)

\* lines 625-630: the reply when the model proposes no tool call
SmalltalkResponse(responseMessage) ==
    Returned(OrElse(OptProp(responseMessage, "content"), S(NO_RESPONSE_REPLY)), Undefined)

\* lines 621-624: the reply after the composition call returned
ComposedResponse(finalMessage, toolResults) ==
    Returned(OrElse(OptProp(finalMessage, "content"), S(ACTION_COMPLETED)),
             O([tool_results |-> A(toolResults)]))

\* a test that takes any tool_calls array, even an empty one
WantsToolsAnyArray(responseMessage) == Truthy(OptProp(responseMessage, "tool_calls"))

\* line 594: does the model want to call tools
WantsTools(responseMessage) ==
    /\ Truthy(OptProp(responseMessage, "tool_calls"))
    /\ LengthOrZero(OptProp(responseMessage, "tool_calls")) > 0

\* a test that rejects a request only when both fields are missing
MissingBothFields(user_id, message) == ~Truthy(user_id) /\ ~Truthy(message)

\* line 225: the request lacks a required field
MissingField(user_id, message) == ~Truthy(user_id) \/ ~Truthy(message)

(***************************************************************************)
(* Bounds of the model and the inputs the collaborators can produce.       *)
(***************************************************************************)
\* the largest batch of tool calls the selection call proposes
MaxBatch == 2

\* the largest task id the store hands out
MaxTaskId == 3

\* the number of requests followed
MaxRequests == 2

\* the most store calls one operation makes (two per target of a bulk update
\* of three targets)
MaxStoreCalls == 6

\* the rows of the store when the first request arrives
InitialTasks ==
    {[id |-> N(1), user_id |-> S("u1"), content |-> S("write report"),
      due_date |-> S("2025-10-02"), priority |-> S("P1"), status |-> S("open"),
      labels |-> A(<<S("work")>>), duration_minutes |-> Null, notes |-> Null],
     [id |-> N(2), user_id |-> S("u2"), content |-> S("call bank"),
      due_date |-> Null, priority |-> S("P3"), status |-> S("open"),
      labels |-> A(<<>>), duration_minutes |-> Null, notes |-> Null]}

InitialDb == [tasks |-> InitialTasks, nextId |-> 3, calls |-> 0, atRequest |-> InitialTasks]

\* the conversation log when the first request arrives
InitialMemories ==
    <<[user_id |-> S("u1"), content |-> S("User: hi"), role |-> S("user")],
      [user_id |-> S("u1"), content |-> S("AI: Hello Ann"), role |-> S("ai")]>>

\* the longest conversation log the first request may find
MaxLog == 33

RECURSIVE TurnText(_)
\* the content of the k-th stored turn: a text that differs from turn to turn
TurnText(k) == IF k = 0 THEN "turn " ELSE TurnText(k - 1) \o "i"

\* a log that holds more turns of u1 than the context takes, two turns of u2
\* among them
LongLog ==
    [k \in 1..MaxLog |->
        [user_id |-> IF k \in {5, 20} THEN S("u2") ELSE S("u1"),
         content |-> S(TurnText(k)),
         role |-> IF k % 2 = 1 THEN S("user") ELSE S("ai")]]

\* the conversation logs the first request may find
ConversationLogs == {InitialMemories, LongLog}

\* request bodies: a field may be missing or empty
UserIdInputs == {Undefined, S(""), S("u1"), S("u2"), S("ghost")}

MessageInputs == {Undefined, S(""), S("Add a task to buy milk")}

\* the instants (in hours) at which an operation may read the clock
NowHours == {0, 12, 36, 48}

Call(name, arguments) == [name |-> name, arguments |-> arguments]

\* the tool calls the selection call may propose in a request
PipelineCalls ==
    {Call("create_task", JsonText(O([title |-> S("buy milk"), due |-> Null]))),
     Call("list_tasks", JsonText(O(EmptyObject))),
     Call("get_audit_log", JsonText(O(EmptyObject))),
     Call("create_task", MalformedText)}

CallId(i) == CASE i = 1 -> "call_1" [] i = 2 -> "call_2" [] i = 3 -> "call_3" [] OTHER -> "call_n"

\* the tool_calls array for a sequence of proposed calls
ToolCalls(batch) ==
    [i \in DOMAIN batch |->
        [id |-> CallId(i), name |-> batch[i].name, arguments |-> batch[i].arguments]]

\* sequences of 1..MaxBatch proposed calls
Batches == UNION {[1..n -> PipelineCalls] : n \in 1..MaxBatch}

AssistantMessage(content, toolCalls) == O([content |-> content, tool_calls |-> toolCalls])

\* what a call of the model-inference provider may do
SelectionOutcomes ==
    {ModelErr(m) : m \in ProviderErrorMessages}
        \cup {ModelOk(Undefined)}
        \cup {ModelOk(AssistantMessage(c, tc)) :
                c \in {Null, S("Hi there!")}, tc \in {Undefined, A(<<>>)}}
        \cup {ModelOk(AssistantMessage(Null, A(ToolCalls(b)))) : b \in Batches}

CompositionOutcomes ==
    {ModelErr(m) : m \in ProviderErrorMessages}
        \cup {ModelOk(Undefined)}
        \cup {ModelOk(AssistantMessage(c, Undefined)) : c \in {S(""), S("Done.")}}

(***************************************************************************)
(* State.                                                                  *)
(***************************************************************************)
VARIABLES
    pc,              \* where the request stands in the route handler / handleMessage
    req,             \* the request body: [user_id, message]
    profile,         \* the profile authenticateUser returned
    db,              \* the task store: [tasks, nextId, calls, atRequest]
    memories,        \* the conversation store, oldest row first
    messages,        \* the transcript built by handleMessage
    responseMessage, \* the message of the selection completion
    calls,           \* the executeToolCall invocations of the batch, in order
    toolResults,     \* what Promise.all resolved with
    response,        \* what handleMessage settled with
    res,             \* the HTTP response sent: [status, body]
    modelCalls,      \* the model-inference calls made for this request, in order
    identityCalls,   \* the outcomes of the identity lookups made for this request
    memoryCalls,     \* the conversation-store calls made for this request
    requests         \* the number of requests answered

vars == <<pc, req, profile, db, memories, messages, responseMessage, calls, toolResults,
          response, res, modelCalls, identityCalls, memoryCalls, requests>>

NoRes == [status |-> 0, body |-> Undefined]

\* the record kept of a model-inference call
ModelCall(kind, mo) == [kind |-> kind, failed |-> mo.error]

NoReq == [user_id |-> Undefined, message |-> Undefined]

Init ==
    /\ pc = "idle"
    /\ req = NoReq
    /\ profile = Undefined
    /\ db = InitialDb
    /\ memories = InitialMemories
    /\ messages = <<>>
    /\ responseMessage = Undefined
    /\ calls = <<>>
    /\ toolResults = <<>>
    /\ response = Pending
    /\ res = NoRes
    /\ modelCalls = <<>>
    /\ identityCalls = <<>>
    /\ memoryCalls = 0
    /\ requests = 0

\* the collaborator outcomes recorded for an invocation that has not run yet
NoEnv == [sos |-> <<>>, mo |-> ModelOk(Undefined), now |-> 0]

\* the local state of a bulk update between two store calls: the target it
\* is at, the call it makes next, the row it read, its counters
NoFrame == [j |-> 1, at |-> "read", task |-> Null, results |-> NoResults]

\* the invocations of an earlier batch that are still running
Running == {i \in DOMAIN calls : calls[i].state = "running"}

(***************************************************************************)
(* router.post('/send-message'), routes/chat.ts lines 221-256.             *)
(***************************************************************************)
\* lines 223-228: a request arrives; a missing field is answered with 400
SendMessage(user_id, message) ==
    /\ pc \in {"idle", "done"}
    /\ requests < MaxRequests
    /\ Running = {}
    /\ req' = [user_id |-> user_id, message |-> message]
    /\ profile' = Undefined
    /\ db' = [db EXCEPT !.calls = 0, !.atRequest = db.tasks]
    /\ messages' = <<>>
    /\ responseMessage' = Undefined
    /\ calls' = <<>>
    /\ toolResults' = <<>>
    /\ response' = Pending
    /\ modelCalls' = <<>>
    /\ identityCalls' = <<>>
    /\ memoryCalls' = 0
    /\ IF MissingField(user_id, message)
       THEN /\ res' = [status |-> 400, body |-> O([error |-> S("user_id and message are required")])]
            /\ pc' = "done"
            /\ requests' = requests + 1
       ELSE /\ res' = NoRes
            /\ pc' = "auth"
            /\ requests' = requests
    /\ UNCHANGED memories

\* lines 231-235: the identity lookup; anything but a known user is answered with 401
AuthenticateUser ==
    /\ pc = "auth"
    /\ \E io \in IdentityOutcomes :
          LET auth == authenticateUser(req.user_id, io)
          IN  /\ identityCalls' = Append(identityCalls, io)
              /\ IF ~auth.authenticated
                 THEN /\ res' = [status |-> 401, body |-> O([error |-> S("Invalid user")])]
                      /\ pc' = "done"
                      /\ requests' = requests + 1
                      /\ UNCHANGED profile
                 ELSE /\ profile' = auth.profile
                      /\ pc' = "history"
                      /\ UNCHANGED <<res, requests>>
    /\ UNCHANGED <<req, db, memories, messages, responseMessage, calls, toolResults,
                   response, modelCalls, memoryCalls>>

(***************************************************************************)
(* handleMessage, lines 555-635.                                           *)
(***************************************************************************)
\* lines 561-579: read the history and build the transcript; a failing read
\* is thrown past handleMessage and answered with 500 by the route (251-254)
GetRecentMessages ==
    /\ pc = "history"
    /\ \E so \in StoreOutcomes :
          LET history == getRecentMessages(memories, req.user_id, HISTORY_LIMIT, so)
          IN  /\ memoryCalls' = memoryCalls + 1
              /\ IF history.thrown
                 THEN /\ response' = Thrown
                      /\ res' = [status |-> 500, body |-> O([error |-> S("Internal server error")])]
                      /\ pc' = "done"
                      /\ requests' = requests + 1
                      /\ UNCHANGED messages
                 ELSE /\ messages' = Transcript(history.value, req.message, profile)
                      /\ pc' = "select"
                      /\ UNCHANGED <<response, res, requests>>
    /\ UNCHANGED <<req, profile, db, memories, responseMessage, calls, toolResults,
                   modelCalls, identityCalls>>

\* lines 583-594 and 625-634: the selection call; without tool calls its
\* content is the reply, a failure goes to the catch block
SelectionCall ==
    /\ pc = "select"
    /\ \E mo \in SelectionOutcomes :
        /\ modelCalls' = Append(modelCalls, ModelCall("selection", mo))
        /\ IF mo.error
           THEN /\ response' = HandleMessageCatch
                /\ pc' = "store"
                /\ UNCHANGED <<responseMessage, calls>>
           ELSE /\ responseMessage' = mo.message
                /\ IF WantsTools(mo.message)
                   THEN /\ calls' = [i \in DOMAIN Elems(OptProp(mo.message, "tool_calls")) |->
                                       [toolCall |-> Elems(OptProp(mo.message, "tool_calls"))[i],
                                        state |-> "created",
                                        args |-> EmptyObject,
                                        reason |-> "",
                                        env |-> NoEnv,
                                        frame |-> NoFrame,
                                        result |-> [tool_call_id |-> "", output |-> Undefined]]]
                        /\ pc' = "map"
                        /\ UNCHANGED response
                   ELSE /\ response' = SmalltalkResponse(mo.message)
                        /\ pc' = "store"
                        /\ UNCHANGED calls
    /\ UNCHANGED <<req, profile, db, memories, messages, toolResults, res,
                   identityCalls, memoryCalls, requests>>

\* lines 596-599 with 411-422: tool_calls.map starts every executeToolCall; each
\* runs to its first await, so the arguments are parsed here
StartToolCalls ==
    /\ pc = "map"
    /\ calls' = [i \in DOMAIN calls |->
                    LET parsed == ParseArguments(calls[i].toolCall)
                    IN  IF parsed.thrown
                        THEN [calls[i] EXCEPT !.state = "rejected", !.reason = parsed.message]
                        ELSE [calls[i] EXCEPT !.state = "running", !.args = parsed.args]]
    /\ pc' = "await_all"
    /\ UNCHANGED <<req, profile, db, memories, messages, responseMessage, toolResults,
                   response, res, modelCalls, identityCalls, memoryCalls, requests>>

\* the operations that make one call to the task store
SingleStoreCallNames ==
    {"create_task", "update_task", "list_tasks", "check_deadline_risks",
     "calculate_priority_score"}

\* the outcomes of the collaborator calls a tool call may meet; the outcome
\* of a call the operation never makes is left at its default
EnvChoices(toolCall) ==
    {[sos |-> sos, mo |-> mo, now |-> now] :
        sos \in (IF toolCall.name = "bulk_update_tasks"
                 THEN [1..MaxStoreCalls -> StoreOutcomes]
                 ELSE IF toolCall.name \in SingleStoreCallNames
                 THEN {[k \in 1..MaxStoreCalls |-> IF k = 1 THEN o ELSE StoreOk] :
                            o \in StoreOutcomes}
                 ELSE {[k \in 1..MaxStoreCalls |-> StoreOk]}),
        mo \in (IF toolCall.name = "generate_task_brief"
                THEN {ModelErr(m) : m \in ProviderErrorMessages}
                        \cup {ModelOk(AssistantMessage(c, Undefined)) : c \in {Null, S("Brief")}}
                ELSE {ModelOk(Undefined)}),
        now \in (IF toolCall.name = "check_deadline_risks" THEN NowHours ELSE {0})}

\* lines 424-551: one running executeToolCall completes its operation
ExecuteToolCall(i) ==
    /\ i \in Running
    /\ \E env \in EnvChoices(calls[i].toolCall) :
        \E settled \in {Dispatch(db, calls[i].toolCall, calls[i].args, req.user_id.v, env)} :
              /\ settled.db.nextId <= MaxTaskId + 1
              /\ db' = settled.db
              /\ calls' = [calls EXCEPT ![i].state = IF settled.rejected THEN "rejected"
                                                      ELSE "fulfilled",
                                        ![i].reason = settled.reason,
                                        ![i].env = env,
                                        ![i].result = settled.result]
    /\ UNCHANGED <<pc, req, profile, memories, messages, responseMessage, toolResults,
                   response, res, modelCalls, identityCalls, memoryCalls, requests>>

\* lines 596-612: Promise.all resolves once every invocation has its result;
\* the assistant message and one tool turn per result join the transcript
PromiseAllResolve ==
    /\ pc = "await_all"
    /\ \A i \in DOMAIN calls : calls[i].state = "fulfilled"
    /\ toolResults' = [i \in DOMAIN calls |-> calls[i].result]
    /\ messages' = messages
            \o <<Message("assistant", OptProp(responseMessage, "content"), "",
                         OptProp(responseMessage, "tool_calls"))>>
            \o [i \in DOMAIN calls |->
                    Message("tool", JSONStringify(calls[i].result.output),
                            calls[i].result.tool_call_id, Undefined)]
    /\ pc' = "compose"
    /\ UNCHANGED <<req, profile, db, memories, responseMessage, calls, response, res,
                   modelCalls, identityCalls, memoryCalls, requests>>

\* lines 596-600 and 631-634: Promise.all rejects with the first rejection and
\* handleMessage goes to its catch block
PromiseAllReject ==
    /\ pc = "await_all"
    /\ \E i \in DOMAIN calls : calls[i].state = "rejected"
    /\ response' = HandleMessageCatch
    /\ pc' = "store"
    /\ UNCHANGED <<req, profile, db, memories, messages, responseMessage, calls, toolResults,
                   res, modelCalls, identityCalls, memoryCalls, requests>>

\* lines 615-624 and 631-634: the composition call
CompositionCall ==
    /\ pc = "compose"
    /\ \E mo \in CompositionOutcomes :
        /\ modelCalls' = Append(modelCalls, ModelCall("composition", mo))
        /\ response' = IF mo.error THEN HandleMessageCatch
                        ELSE ComposedResponse(mo.message, toolResults)
    /\ pc' = "store"
    /\ UNCHANGED <<req, profile, db, memories, messages, responseMessage, calls, toolResults,
                   res, identityCalls, memoryCalls, requests>>

(***************************************************************************)
(* Back in the route: the best-effort conversation writes (lines 240-247)  *)
(* and the response (249).  The route passes no role to storeMemory.       *)
(***************************************************************************)
\* the two writes without the try block around them: a throw reaches the
\* route's outer catch and is answered with 500
StoreTurnsUnguarded ==
    /\ pc = "store"
    /\ \E eo1 \in EmbedOutcomes, so1 \in StoreOutcomes :
          \E userTurn \in {storeMemory(memories, req.user_id,
                                       S("User: " \o ToText(req.message)), Undefined, eo1, so1)} :
              /\ memories' = userTurn.mem
              /\ memoryCalls' = memoryCalls + 1
              /\ IF userTurn.thrown
                 THEN /\ res' = [status |-> 500,
                                 body |-> O([error |-> S("Internal server error")])]
                      /\ pc' = "done"
                      /\ requests' = requests + 1
                 ELSE /\ pc' = "respond"
                      /\ UNCHANGED <<res, requests>>
    /\ UNCHANGED <<req, profile, db, messages, responseMessage, calls, toolResults,
                   response, modelCalls, identityCalls>>

\* lines 241-247: the try block storing the user turn, then the reply; the
\* first throw ends the block and is only logged
StoreTurns ==
    /\ pc = "store"
    /\ \E eo1 \in EmbedOutcomes, so1 \in StoreOutcomes :
          LET userTurn == storeMemory(memories, req.user_id,
                                      S("User: " \o ToText(req.message)), Undefined, eo1, so1)
          IN  IF userTurn.thrown
              THEN /\ memories' = userTurn.mem
                   /\ memoryCalls' = memoryCalls + 1
              ELSE \E eo2 \in EmbedOutcomes, so2 \in StoreOutcomes :
                      LET aiTurn == storeMemory(userTurn.mem, req.user_id,
                                                S("AI: " \o ToText(response.reply)),
                                                Undefined, eo2, so2)
                      IN  /\ memories' = aiTurn.mem
                          /\ memoryCalls' = memoryCalls + 2
    /\ pc' = "respond"
    /\ UNCHANGED <<req, profile, db, messages, responseMessage, calls, toolResults,
                   response, res, modelCalls, identityCalls, requests>>

\* the response sent before the try block that stores the turns
RespondBeforeStore ==
    /\ pc = "store"
    /\ res' = [status |-> 200,
               body |-> O([reply |-> response.reply, optional_data |-> response.optional_data])]
    /\ pc' = "done"
    /\ requests' = requests + 1
    /\ UNCHANGED <<req, profile, db, memories, messages, responseMessage, calls, toolResults,
                   response, modelCalls, identityCalls, memoryCalls>>

\* line 249: res.json(response)
Respond ==
    /\ pc = "respond"
    /\ res' = [status |-> 200,
               body |-> O([reply |-> response.reply, optional_data |-> response.optional_data])]
    /\ pc' = "done"
    /\ requests' = requests + 1
    /\ UNCHANGED <<req, profile, db, memories, messages, responseMessage, calls, toolResults,
                   response, modelCalls, identityCalls, memoryCalls>>

Next ==
    \/ \E user_id \in UserIdInputs, message \in MessageInputs : SendMessage(user_id, message)
    \/ AuthenticateUser
    \/ GetRecentMessages
    \/ SelectionCall
    \/ StartToolCalls
    \/ \E i \in DOMAIN calls : ExecuteToolCall(i)
    \/ PromiseAllResolve
    \/ PromiseAllReject
    \/ CompositionCall
    \/ StoreTurns
    \/ Respond

Spec == Init /\ [][Next]_vars

(***************************************************************************)
(* The executor on its own: one executeToolCall, for every tool call of a  *)
(* larger input set, against the initial store.                            *)
(***************************************************************************)
\* the operation catalog AI_TOOLS: the names and their required parameters
CatalogNames ==
    {"create_task", "update_task", "list_tasks", "schedule_tasks_to_calendar",
     "reschedule_tasks", "check_deadline_risks", "calculate_priority_score",
     "bulk_update_tasks", "generate_task_brief", "undo_last_action", "get_audit_log",
     "ask_clarification"}

Required(name) ==
    CASE name = "create_task" -> {"title"}
      [] name = "update_task" -> {"set"}
      [] name \in {"schedule_tasks_to_calendar", "reschedule_tasks"} -> {"task_ids"}
      [] name = "calculate_priority_score" -> {"task_id"}
      [] name = "bulk_update_tasks" -> {"task_ids", "operation"}
      [] name = "generate_task_brief" -> {"short_input"}
      [] name = "ask_clarification" -> {"missing_fields", "context"}
      [] OTHER -> {}

\* argument bags that conform to the parameter schema of their operation
SchemaBags(name) ==
    CASE name = "create_task" ->
            {[title |-> S("buy milk")],
             [title |-> S("buy milk"), due |-> Null, priority |-> S("P1"),
              labels |-> A(<<S("home")>>), duration_minutes |-> N(30), notes |-> S("")],
             [title |-> S("pay rent"), due |-> S("2025-10-02T10:00:00Z"), priority |-> Null],
             [title |-> S("call mum"), due |-> S("tomorrow")]}
      [] name = "update_task" ->
            {[task_id |-> S("1"), set |-> O([status |-> S("done"), title |-> Null])],
             [task_id |-> Null, fuzzy_key |-> S("report"), set |-> O([priority |-> S("P0")])],
             [set |-> O(EmptyObject)],
             [task_id |-> S("4"), set |-> O([title |-> S("renamed")])],
             [task_id |-> S("2"), set |-> O([due |-> S("2025-10-09")])],
             [task_id |-> S("1"), set |-> O([notes |-> S(""), priority |-> S("P3")])]}
      [] name = "list_tasks" ->
            {EmptyObject,
             [filter |-> O([priority_at_least |-> S("P1"), status |-> Null]),
              sort |-> S("priority_desc")],
             [sort |-> S("created_asc")],
             [filter |-> O([labels_any |-> A(<<S("work")>>), due_before |-> S("2025-10-02")])],
             [filter |-> O([status |-> S("open")]), sort |-> S("due_desc")]}
      [] name = "schedule_tasks_to_calendar" ->
            {[task_ids |-> A(<<S("1")>>), preview_only |-> B(FALSE)],
             [task_ids |-> A(<<>>)]}
      [] name = "reschedule_tasks" -> {[task_ids |-> A(<<S("1"), S("2")>>)]}
      [] name = "check_deadline_risks" ->
            {EmptyObject,
             [threshold_days |-> N(7)],
             [task_ids |-> Null, threshold_days |-> N(1)],
             [task_ids |-> A(<<S("1")>>), auto_suggest |-> B(TRUE)]}
      [] name = "calculate_priority_score" ->
            {[task_id |-> S("1")],
             [task_id |-> S("4")],
             [task_id |-> S("1"), weights |-> O([impact |-> N(50), urgency |-> N(50)])]}
      [] name = "bulk_update_tasks" ->
            {[task_ids |-> A(<<S("1"), S("2")>>), operation |-> S("archive")],
             [task_ids |-> A(<<S("1"), S("2"), S("3")>>), operation |-> S("archive")],
             [task_ids |-> A(<<>>), operation |-> S("delete")],
             [task_ids |-> A(<<S("1"), S("x")>>), operation |-> S("relabel"),
              params |-> O([labels_add |-> A(<<S("urgent"), S("work")>>)])],
             [task_ids |-> A(<<S("2"), S("1")>>), operation |-> S("delete")],
             [task_ids |-> A(<<S("1")>>), operation |-> S("delete"),
              preview_only |-> B(TRUE)],
             [task_ids |-> A(<<S("2")>>), operation |-> S("archive"),
              preview_only |-> B(TRUE)],
             [task_ids |-> A(<<S("1")>>), operation |-> S("reassign"),
              params |-> O([assignee |-> S("bob")])]}
      [] name = "generate_task_brief" ->
            {[short_input |-> S("plan trip"), generate_subtasks |-> B(TRUE)]}
      [] name = "undo_last_action" -> {EmptyObject, [action_id |-> Null]}
      [] name = "get_audit_log" -> {EmptyObject, [export_format |-> S("csv")]}
      [] name = "ask_clarification" ->
            {[missing_fields |-> A(<<S("due")>>), context |-> S("when?"),
              suggestions |-> Null]}
      [] OTHER -> {}

\* tool calls whose name is in the catalog and whose arguments its schema accepts
ValidCalls ==
    UNION {{Call(name, JsonText(O(bag))) :
                bag \in {b \in SchemaBags(name) : Required(name) \subseteq DOMAIN b}} :
           name \in CatalogNames}

\* argument bags over three keys holding null, falsy and nested values
SanitationKeys == {"action_id", "context", "set"}

SanitationValues ==
    {Null, S(""), N(0), B(FALSE), S("x"), O([title |-> Null]), A(<<Null>>)}

SanitationBags == UNION {[keys -> SanitationValues] : keys \in SUBSET SanitationKeys}

\* tool calls outside the catalog or outside its schemas
OtherCalls ==
    {Call("delete_task", JsonText(O([task_id |-> N(1)]))),
     Call("delete_task", MalformedText),
     Call("create_task", MalformedText),
     Call("list_tasks", JsonText(Null)),
     Call("list_tasks", JsonText(N(5))),
     Call("list_tasks", JsonText(A(<<S("open"), Null>>))),
     Call("update_task", JsonText(O([task_id |-> S("1")]))),
     Call("", JsonText(O(EmptyObject)))}
        \cup {Call("undo_last_action", JsonText(O(bag))) : bag \in SanitationBags}

ExecCalls == ValidCalls \cup OtherCalls

\* a store in which both tasks belong to u1 and have a due date
DueTasks ==
    {[id |-> N(1), user_id |-> S("u1"), content |-> S("write report"),
      due_date |-> S("2025-10-02"), priority |-> S("P1"), status |-> S("open"),
      labels |-> A(<<S("work")>>), duration_minutes |-> Null, notes |-> Null],
     [id |-> N(2), user_id |-> S("u1"), content |-> S("book flights"),
      due_date |-> S("2025-10-09"), priority |-> S("P2"), status |-> S("open"),
      labels |-> A(<<>>), duration_minutes |-> Null, notes |-> Null]}

\* three tasks of u1 with priorities P0, P1 and P2, the first with notes
PriorityTasks ==
    {[id |-> N(k), user_id |-> S("u1"),
      content |-> S(IF k = 1 THEN "fix outage" ELSE IF k = 2 THEN "write report"
                    ELSE "book flights"),
      due_date |-> Null,
      priority |-> S(IF k = 1 THEN "P0" ELSE IF k = 2 THEN "P1" ELSE "P2"),
      status |-> S("open"), labels |-> A(<<>>), duration_minutes |-> Null,
      notes |-> IF k = 1 THEN S("call Bob first") ELSE Null] : k \in 1..3}

\* the stores an invocation may meet
ExecDbs ==
    {InitialDb,
     [InitialDb EXCEPT !.tasks = DueTasks, !.atRequest = DueTasks],
     [InitialDb EXCEPT !.tasks = PriorityTasks, !.atRequest = PriorityTasks, !.nextId = 4]}

\* the state in which the selection call has just proposed one tool call
ExecInit ==
    /\ pc = "map"
    /\ req \in {[user_id |-> S(u), message |-> S("Add a task to buy milk")] :
                    u \in RegisteredUsers}
    /\ profile = O([first_name |-> FirstName(req.user_id.v)])
    /\ db \in ExecDbs
    /\ memories = InitialMemories
    /\ messages = Transcript(getRecentMessages(memories, req.user_id, HISTORY_LIMIT, StoreOk).value,
                             req.message, profile)
    /\ \E c \in ExecCalls :
          /\ responseMessage = AssistantMessage(Null, A(ToolCalls(<<c>>)))
          /\ calls = [i \in {1} |->
                        [toolCall |-> ToolCalls(<<c>>)[1],
                         state |-> "created",
                         args |-> EmptyObject,
                         reason |-> "",
                         env |-> NoEnv,
                         frame |-> NoFrame,
                         result |-> [tool_call_id |-> "", output |-> Undefined]]]
    /\ toolResults = <<>>
    /\ response = Pending
    /\ res = NoRes
    /\ modelCalls = <<[kind |-> "selection", failed |-> FALSE]>>
    /\ identityCalls = <<"answers">>
    /\ memoryCalls = 1
    /\ requests = 0

ExecNext ==
    \/ StartToolCalls
    \/ \E i \in DOMAIN calls : ExecuteToolCall(i)

ExecSpec == ExecInit /\ [][ExecNext]_vars

(***************************************************************************)
(* The conversation store on its own: storeMemory and getRecentMessages    *)
(* called with every kind of argument, the role included.                  *)
(***************************************************************************)
\* the number of memory calls followed
MaxMemoryCalls == 3

MemoryUserInputs == {Undefined, S("u1"), S("u2")}

MemoryTextInputs == {S(""), S("User: plan my day"), S("AI: Here is your plan")}

MemoryRoleInputs == {Undefined, S("user"), S("ai"), S("system")}

MemInit == Init

\* one call of storeMemory
StoreMemoryCall ==
    /\ memoryCalls < MaxMemoryCalls
    /\ \E userId \in MemoryUserInputs, text \in MemoryTextInputs, role \in MemoryRoleInputs,
          eo \in EmbedOutcomes, so \in StoreOutcomes :
          memories' = storeMemory(memories, userId, text, role, eo, so).mem
    /\ memoryCalls' = memoryCalls + 1
    /\ UNCHANGED <<pc, req, profile, db, messages, responseMessage, calls, toolResults,
                   response, res, modelCalls, identityCalls, requests>>

\* one call of getRecentMessages, its rows kept as a transcript
RecentMessagesCall ==
    /\ memoryCalls < MaxMemoryCalls
    /\ \E userId \in MemoryUserInputs, so \in StoreOutcomes :
          \E history \in {getRecentMessages(memories, userId, HISTORY_LIMIT, so)} :
              messages' = IF history.thrown THEN <<>>
                          ELSE Transcript(history.value, S("hello"), Undefined)
    /\ memoryCalls' = memoryCalls + 1
    /\ UNCHANGED <<pc, req, profile, db, memories, responseMessage, calls, toolResults,
                   response, res, modelCalls, identityCalls, requests>>

MemNext ==
    \/ StoreMemoryCall
    \/ RecentMessagesCall

MemSpec == MemInit /\ [][MemNext]_vars

(***************************************************************************)
(* The assembly of the context on its own: a request up to its selection   *)
(* call, over conversation logs shorter and longer than the history limit. *)
(***************************************************************************)
ContextInit ==
    /\ pc = "idle"
    /\ req = NoReq
    /\ profile = Undefined
    /\ db = InitialDb
    /\ memories \in ConversationLogs
    /\ messages = <<>>
    /\ responseMessage = Undefined
    /\ calls = <<>>
    /\ toolResults = <<>>
    /\ response = Pending
    /\ res = NoRes
    /\ modelCalls = <<>>
    /\ identityCalls = <<>>
    /\ memoryCalls = 0
    /\ requests = 0

ContextNext ==
    \/ \E user_id \in UserIdInputs, message \in MessageInputs : SendMessage(user_id, message)
    \/ AuthenticateUser
    \/ GetRecentMessages
    \/ SelectionCall

ContextSpec == ContextInit /\ [][ContextNext]_vars

(***************************************************************************)
(* A batch of two bulk relabel invocations, followed store call by store   *)
(* call: Promise.all (lines 596-600) starts every invocation, and each     *)
(* await of a store call lets the other invocation run.  In Spec the       *)
(* operations of a batch make one store call each, so one step per         *)
(* invocation loses no interleaving there.                                 *)
(***************************************************************************)
\* the relabel invocations a batch may hold
RelabelCalls ==
    {Call("bulk_update_tasks",
          JsonText(O([task_ids |-> A(target.ids), operation |-> S("relabel"),
                      params |-> O([labels_add |-> A(target.labels)])]))) :
        target \in {[ids |-> <<S("1")>>, labels |-> <<S("urgent")>>],
                    [ids |-> <<S("1")>>, labels |-> <<S("home")>>],
                    [ids |-> <<S("1"), S("2")>>, labels |-> <<S("urgent"), S("work")>>]}}

\* the state in which the selection call has just proposed two relabel calls
ConcInit ==
    /\ pc = "map"
    /\ req = [user_id |-> S("u1"), message |-> S("Add a task to buy milk")]
    /\ profile = O([first_name |-> FirstName(req.user_id.v)])
    /\ db \in ExecDbs
    /\ memories = InitialMemories
    /\ messages = Transcript(getRecentMessages(memories, req.user_id, HISTORY_LIMIT, StoreOk).value,
                             req.message, profile)
    /\ \E c1 \in RelabelCalls, c2 \in RelabelCalls :
          /\ responseMessage = AssistantMessage(Null, A(ToolCalls(<<c1, c2>>)))
          /\ calls = [i \in {1, 2} |->
                        [toolCall |-> ToolCalls(<<c1, c2>>)[i],
                         state |-> "created",
                         args |-> EmptyObject,
                         reason |-> "",
                         env |-> NoEnv,
                         frame |-> NoFrame,
                         result |-> [tool_call_id |-> "", output |-> Undefined]]]
    /\ toolResults = <<>>
    /\ response = Pending
    /\ res = NoRes
    /\ modelCalls = <<[kind |-> "selection", failed |-> FALSE]>>
    /\ identityCalls = <<"answers">>
    /\ memoryCalls = 1
    /\ requests = 0

\* lines 324-329: invocation i reads the labels of its current target
RelabelRead(i) ==
    /\ i \in Running
    /\ calls[i].frame.at = "read"
    /\ Len(calls[i].env.sos) < MaxStoreCalls
    /\ \E so \in StoreOutcomes :
        \E sel \in {DbSelectSingle(db, req.user_id.v,
                                   calls[i].args.task_ids.v[calls[i].frame.j], so)} :
            /\ db' = sel.db
            /\ calls' = [calls EXCEPT ![i].frame.at = "write",
                                      ![i].frame.task = sel.data,
                                      ![i].env.sos = Append(@, so)]
    /\ UNCHANGED <<pc, req, profile, memories, messages, responseMessage, toolResults,
                   response, res, modelCalls, identityCalls, memoryCalls, requests>>

\* lines 331-354 and 360: invocation i writes the labels of its current
\* target, counts it, and goes to the next target or returns its counters
RelabelWriteStep(i) ==
    /\ i \in Running
    /\ calls[i].frame.at = "write"
    /\ \E so \in StoreOutcomes :
        \E step \in {RelabelWrite(db, req.user_id.v,
                                  calls[i].args.task_ids.v[calls[i].frame.j],
                                  Prop(calls[i].args, "params"), calls[i].frame.task, so)} :
          \E results \in {BulkCount(calls[i].frame.results,
                                    calls[i].args.task_ids.v[calls[i].frame.j], step)} :
            /\ db' = step.db
            /\ calls' =
                  IF calls[i].frame.j < Len(calls[i].args.task_ids.v)
                  THEN [calls EXCEPT ![i].frame.j = @ + 1,
                                     ![i].frame.at = "read",
                                     ![i].frame.task = Null,
                                     ![i].frame.results = results,
                                     ![i].env.sos = Append(@, so)]
                  ELSE [calls EXCEPT ![i].frame.results = results,
                                     ![i].frame.at = "returned",
                                     ![i].env.sos = Append(@, so),
                                     ![i].state = "fulfilled",
                                     ![i].result =
                                        Fulfilled(calls[i].toolCall,
                                                  O([success |-> B(TRUE),
                                                     results |-> O(results)]),
                                                  step.db).result]
    /\ UNCHANGED <<pc, req, profile, memories, messages, responseMessage, toolResults,
                   response, res, modelCalls, identityCalls, memoryCalls, requests>>

ConcNext ==
    \/ StartToolCalls
    \/ \E i \in DOMAIN calls : RelabelRead(i)
    \/ \E i \in DOMAIN calls : RelabelWriteStep(i)

ConcSpec == ConcInit /\ [][ConcNext]_vars

(***************************************************************************)
(* The functions that turn one answer of the model-inference provider into *)
(* a value: detectIntent (three versions) and AIService.structured_output. *)
(* req holds the arguments of the call, responseMessage the provider's     *)
(* message, response what the function settles with.                       *)
(***************************************************************************)
\* Object.values(INTENTS)
INTENTS ==
    {"add_task", "list_tasks", "delete_task", "reflect_journal", "smalltalk",
     "summaries", "performance_insights", "long_conversation_analysis"}

\* a comparison that takes the text as it is
ExactText(s) == s

\* s.trim().toLowerCase()
TrimLower(s) ==
    CASE s = "ADD_TASK" -> "add_task"
      [] s = " add_task " -> "add_task"
      [] s = "List_Tasks" -> "list_tasks"
      [] s = " Smalltalk" -> "smalltalk"
      [] s = "I think ADD_TASK" -> "i think add_task"
      [] OTHER -> s

\* a message content that is the JSON text of the value v
JsonContent(v) == [t |-> "json", v |-> v]

\* the answers of the provider: an error, no message, or a message whose
\* content is missing, plain text, or the JSON text of a value
IntentOutcomes ==
    {ModelErr(m) : m \in ProviderErrorMessages}
        \cup {ModelOk(Undefined)}
        \cup {ModelOk(O([content |-> c])) :
                c \in {Undefined, Null, S("")}
                    \cup {S(n) : n \in INTENTS}
                    \cup {S("ADD_TASK"), S(" add_task "), S("List_Tasks"), S(" Smalltalk"),
                          S("I think ADD_TASK"), S("unknown_intent")}
                    \cup {JsonContent(O([intent |-> x])) :
                            x \in {S(n) : n \in INTENTS}
                                \cup {S("ADD_TASK"), S(" add_task "), S("unknown_intent"),
                                      N(5), Null}}
                    \cup {JsonContent(O(EmptyObject)), JsonContent(Null),
                          JsonContent(S("add_task")), JsonContent(A(<<>>)),
                          JsonContent(O([intent |-> S("list_tasks"), confidence |-> N(1)])),
                          JsonContent(O([test |-> S("response")]))}}

\* what a function settles with when it throws the error message m
Rejection(m) == [state |-> "thrown", reply |-> S(m), optional_data |-> Undefined]

\* routes/chat.ts lines 76-93: the answer is the intent name as plain text
detectIntentGroqText(mo) ==
    IF mo.error THEN Rejection(mo.errorMessage)
    ELSE IF OptProp(mo.message, "content").t = "string"
            /\ TrimLower(OptProp(mo.message, "content").v) \in INTENTS
    THEN Returned(S(TrimLower(OptProp(mo.message, "content").v)), Undefined)
    ELSE Returned(S("smalltalk"), Undefined)

\* part_008 lines 76-119: the answer is the JSON text of {intent}
detectIntentGroqJson(mo) ==
    IF mo.error THEN Rejection(mo.errorMessage)
    ELSE IF ~Truthy(OptProp(mo.message, "content")) THEN Returned(S("smalltalk"), Undefined)
    ELSE IF OptProp(mo.message, "content").t = "json"
            /\ OptProp(OptProp(mo.message, "content").v, "intent").t = "string"
            /\ TrimLower(OptProp(OptProp(mo.message, "content").v, "intent").v) \in INTENTS
    THEN Returned(S(TrimLower(OptProp(OptProp(mo.message, "content").v, "intent").v)),
                  Undefined)
    ELSE Returned(S("smalltalk"), Undefined)

\* part_008 lines 435-468: the answer is the JSON text of {intent}, validated
\* by intentSchema.safeParse
detectIntentOllama(mo) ==
    IF mo.error THEN Rejection(mo.errorMessage)
    ELSE IF mo.message.t = "undefined"
    THEN Rejection("Cannot read properties of undefined (reading 'content')")
    ELSE IF ~Truthy(OptProp(mo.message, "content")) THEN Returned(S("smalltalk"), Undefined)
    ELSE IF OptProp(mo.message, "content").t = "json"
            /\ OptProp(OptProp(mo.message, "content").v, "intent").t = "string"
            /\ OptProp(OptProp(mo.message, "content").v, "intent").v \in INTENTS
    THEN Returned(OptProp(OptProp(mo.message, "content").v, "intent"), Undefined)
    ELSE Returned(S("smalltalk"), Undefined)

\* the keys of RESPONSE_FORMAT
ResponseFormatNames ==
    {"create_task", "list_tasks", "update_task", "delete_task",
     "schedule_tasks_to_calendar", "reschedule_tasks", "check_deadline_risks",
     "calculate_priority_score", "bulk_update_tasks", "generate_task_brief",
     "undo_last_action", "ask_clarification"}

\* the error structured_output throws, whatever went wrong
NO_VALID_RESPONSE == "No valid response from AI"

\* a catch block that passes the caught error on
structured_outputRethrows(tool_name, mo) ==
    IF tool_name \notin ResponseFormatNames
    THEN Rejection("No schema found for tool: " \o tool_name)
    ELSE IF mo.error THEN Rejection(mo.errorMessage)
    ELSE IF mo.message.t = "undefined"
    THEN Rejection("Cannot read properties of undefined (reading 'message')")
    ELSE Returned(OptProp(mo.message, "content"), Undefined)

\* AIService.structured_output; mo is the outcome of the provider call, which
\* is made only when the schema was found
structured_output(tool_name, mo) ==
    IF tool_name \notin ResponseFormatNames THEN Rejection(NO_VALID_RESPONSE)
    ELSE IF mo.error THEN Rejection(NO_VALID_RESPONSE)
    ELSE IF mo.message.t = "undefined" THEN Rejection(NO_VALID_RESPONSE)
    ELSE Returned(OptProp(mo.message, "content"), Undefined)

\* the arguments of the calls
HelperMessages == {S(""), S("Hello, how are you?"), S("Add a task to buy groceries")}

HelperToolNames == ResponseFormatNames \cup {"", "get_audit_log", "my_new_tool"}

HelperInit ==
    /\ pc = "idle"
    /\ req \in {[user_id |-> Undefined, message |-> m, tool_name |-> n] :
                    m \in HelperMessages, n \in HelperToolNames}
    /\ profile = Undefined
    /\ db = InitialDb
    /\ memories = InitialMemories
    /\ messages = <<>>
    /\ responseMessage = Undefined
    /\ calls = <<>>
    /\ toolResults = <<>>
    /\ response = Pending
    /\ res = NoRes
    /\ modelCalls = <<>>
    /\ identityCalls = <<>>
    /\ memoryCalls = 0
    /\ requests = 0

\* one call of detectIntent, in one of its versions
DetectIntent ==
    /\ pc = "idle"
    /\ \E version \in {"groq_text", "groq_json", "ollama"} :
        \E mo \in IntentOutcomes :
            /\ version = "ollama" => (mo.error \/ mo.message.t # "undefined")
            /\ modelCalls' = <<ModelCall(version, mo)>>
            /\ responseMessage' = mo.message
            /\ response' = CASE version = "groq_text" -> detectIntentGroqText(mo)
                              [] version = "groq_json" -> detectIntentGroqJson(mo)
                              [] OTHER -> detectIntentOllama(mo)
    /\ pc' = "done"
    /\ UNCHANGED <<req, profile, db, memories, messages, calls, toolResults, res,
                   identityCalls, memoryCalls, requests>>

\* one call of structured_output
StructuredOutput ==
    /\ pc = "idle"
    /\ \E mo \in IntentOutcomes :
            /\ req.tool_name \notin ResponseFormatNames => mo = ModelOk(Undefined)
            /\ modelCalls' = IF req.tool_name \in ResponseFormatNames
                              THEN <<ModelCall("structured_output", mo)>> ELSE <<>>
            /\ responseMessage' = IF req.tool_name \in ResponseFormatNames
                                   THEN mo.message ELSE Undefined
            /\ response' = structured_output(req.tool_name, mo)
    /\ pc' = "done"
    /\ UNCHANGED <<req, profile, db, memories, messages, calls, toolResults, res,
                   identityCalls, memoryCalls, requests>>

HelperNext ==
    \/ DetectIntent
    \/ StructuredOutput

HelperSpec == HelperInit /\ [][HelperNext]_vars

(***************************************************************************)
(* Properties.                                                             *)
(***************************************************************************)
\* the output of a settled invocation, as a bag of properties
OutputOf(call) == call.result.output

IsMalformed(call) == call.toolCall.arguments.text = "malformed"

\* the names the switch of executeToolCall has a case for
HandledNames ==
    {"create_task", "update_task", "list_tasks", "schedule_tasks_to_calendar",
     "reschedule_tasks", "check_deadline_risks", "calculate_priority_score",
     "bulk_update_tasks", "generate_task_brief", "undo_last_action", "ask_clarification"}

\* a failure output: success = false together with a non-empty error string
IsFailureOutput(out) ==
    /\ out.t = "object"
    /\ Prop(out.v, "success") = B(FALSE)
    /\ Prop(out.v, "error").t = "string"
    /\ Prop(out.v, "error").v # ""

IsSuccessOutput(out) == out.t = "object" /\ Prop(out.v, "success") = B(TRUE)

\* the composition calls made for the request
CompositionCalls == {k \in DOMAIN modelCalls : modelCalls[k].kind = "composition"}

\* the selection call of the request has been made and it failed
SelectionFailed == modelCalls # <<>> /\ modelCalls[1].kind = "selection" /\ modelCalls[1].failed

\* the selection call of the request returned without any invocation
NoInvocations ==
    /\ modelCalls # <<>>
    /\ modelCalls[1].kind = "selection"
    /\ ~modelCalls[1].failed
    /\ LengthOrZero(OptProp(responseMessage, "tool_calls")) = 0

\* handleMessage has settled for a request whose selection call proposed a batch
BatchSettled == calls # <<>> /\ response.state # "pending"

\* the argument bag the text of a tool call encodes, when it encodes an object
EncodedBag(call) == call.toolCall.arguments.value.v

EncodesObject(call) ==
    /\ call.toolCall.arguments.text = "json"
    /\ call.toolCall.arguments.value.t = "object"

\* C1: an invocation whose name is in the catalog and whose arguments are a
\* JSON object its schema accepts never rejects, and once it has settled its
\* output has success = true, or success = false with a non-empty error
\* string, whatever the store answered.
C1_ExecutorNeverThrows ==
    \A i \in DOMAIN calls :
        Call(calls[i].toolCall.name, calls[i].toolCall.arguments) \in ValidCalls =>
            /\ calls[i].state # "rejected"
            /\ calls[i].state = "fulfilled" =>
                  /\ calls[i].result.tool_call_id = calls[i].toolCall.id
                  /\ IsSuccessOutput(OutputOf(calls[i])) \/ IsFailureOutput(OutputOf(calls[i]))

\* a catalog operation met a store error and reported it as a failure output
C1_Witness ==
    \E i \in DOMAIN calls :
        /\ Call(calls[i].toolCall.name, calls[i].toolCall.arguments) \in ValidCalls
        /\ calls[i].toolCall.name = "create_task"
        /\ calls[i].state = "fulfilled"
        /\ IsFailureOutput(OutputOf(calls[i]))
        /\ db.calls = 1
        /\ db.tasks = InitialTasks

\* C2: when one invocation of a batch has an argument string that is not
\* JSON, handleMessage still settles with the tool results of the whole batch
\* after one composition call, the malformed invocation's result being a
\* failure output and every other invocation having its own result.
C2_MalformedIsolated ==
    (BatchSettled /\ \E i \in DOMAIN calls : IsMalformed(calls[i])) =>
        /\ response.state = "returned"
        /\ Cardinality(CompositionCalls) = 1
        /\ Len(toolResults) = Len(calls)
        /\ response.optional_data = O([tool_results |-> A(toolResults)])
        /\ \A i \in DOMAIN calls :
              /\ calls[i].state = "fulfilled"
              /\ IsMalformed(calls[i]) => IsFailureOutput(OutputOf(calls[i]))

\* C3: once handleMessage has settled for a batch of N >= 1 invocations it has
\* obtained exactly N results, the i-th carrying the tool_call_id of the i-th
\* invocation, and every invocation has executed and reported its result.
C3_OneResultPerInvocation ==
    BatchSettled =>
        /\ Len(toolResults) = Len(calls)
        /\ \A i \in DOMAIN calls :
              /\ calls[i].state = "fulfilled"
              /\ toolResults[i] = calls[i].result
              /\ toolResults[i].tool_call_id = calls[i].toolCall.id

\* C4: an invocation whose name the switch does not handle never rejects, and
\* settles with {success: false, error: "Unknown tool"} under its tool_call_id
\* without any call to the task store.
C4_UnknownTool ==
    \A i \in DOMAIN calls :
        (calls[i].toolCall.name \notin HandledNames /\ calls[i].state # "created") =>
            /\ calls[i].state # "rejected"
            /\ db.calls = 0
            /\ calls[i].state = "fulfilled" =>
                  calls[i].result =
                      [tool_call_id |-> calls[i].toolCall.id,
                       output |-> O([success |-> B(FALSE), error |-> S("Unknown tool")])]

\* C5: the bag handed to the operation holds exactly the top-level keys of the
\* parsed argument bag whose value is neither null nor undefined, each with
\* the value it had.
C5_Sanitation ==
    \A i \in DOMAIN calls :
        (EncodesObject(calls[i]) /\ calls[i].state # "created") =>
            /\ calls[i].state # "rejected"
            /\ DOMAIN calls[i].args =
                  {k \in DOMAIN EncodedBag(calls[i]) :
                      EncodedBag(calls[i])[k].t \notin {"null", "undefined"}}
            /\ \A k \in DOMAIN calls[i].args : calls[i].args[k] = EncodedBag(calls[i])[k]

\* a bag with a null, an empty string and a nested object holding a null:
\* the null key is gone, the falsy value and the nested null are kept
C5_Witness ==
    \E i \in DOMAIN calls :
        /\ EncodesObject(calls[i])
        /\ calls[i].state = "fulfilled"
        /\ EncodedBag(calls[i]) =
              [action_id |-> Null, context |-> S(""), set |-> O([title |-> Null])]
        /\ calls[i].args = [context |-> S(""), set |-> O([title |-> Null])]

\* what the smalltalk path leaves behind, for a given reply
SmalltalkOutcome(reply) ==
    /\ response = Returned(reply, Undefined)
    /\ calls = <<>>
    /\ toolResults = <<>>
    /\ Len(modelCalls) = 1
    /\ db.calls = 0
    /\ db.tasks = db.atRequest
    /\ pc = "done" =>
          /\ res.status = 200
          /\ res.body = O([reply |-> reply, optional_data |-> Undefined])

\* C6 as stated: without invocations the reply is the content of the model's
\* message, whatever it is.
C6_SmalltalkContentIsReply ==
    NoInvocations => SmalltalkOutcome(OptProp(responseMessage, "content"))

\* C6: without invocations handleMessage replies with the content of the
\* model's message when that content is non-empty and with the fixed reply
\* "Sorry, I couldn't generate a response." otherwise; it executes no
\* operation, makes no composition call, does not touch the task store and
\* returns no tool results.
C6_Smalltalk ==
    NoInvocations =>
        SmalltalkOutcome(IF Truthy(OptProp(responseMessage, "content"))
                         THEN OptProp(responseMessage, "content")
                         ELSE S(NO_RESPONSE_REPLY))

\* a smalltalk request answered with the model's own words, the tool_calls
\* array being present but empty
C6_Witness ==
    /\ NoInvocations
    /\ OptProp(responseMessage, "tool_calls") = A(<<>>)
    /\ pc = "done"
    /\ res.body = O([reply |-> S("Hi there!"), optional_data |-> Undefined])

\* C7: in a request with invocations the composition call is made exactly
\* once, after every invocation has its result and with the assistant message
\* and one tool turn per invocation at the end of the transcript, and
\* handleMessage settles only after that call.
C7_ComposeOnceAfterAll ==
    /\ CompositionCalls # {} =>
          /\ Cardinality(CompositionCalls) = 1
          /\ \A i \in DOMAIN calls : calls[i].state = "fulfilled"
          /\ Len(messages) > Len(calls)
          /\ messages[Len(messages) - Len(calls)].role = "assistant"
          /\ messages[Len(messages) - Len(calls)].tool_calls =
                OptProp(responseMessage, "tool_calls")
          /\ \A i \in DOMAIN calls :
                /\ messages[Len(messages) - Len(calls) + i].role = "tool"
                /\ messages[Len(messages) - Len(calls) + i].tool_call_id = calls[i].toolCall.id
    /\ BatchSettled => Cardinality(CompositionCalls) = 1

\* C8: when the composition call fails handleMessage replies "Action
\* completed." and still returns the results of the batch.
C8_CompositionFallback ==
    (\E k \in CompositionCalls : modelCalls[k].failed) =>
        /\ response.state = "returned"
        /\ response.reply = S(ACTION_COMPLETED)
        /\ response.optional_data = O([tool_results |-> A(toolResults)])

\* C9: when the selection call fails no operation is executed, the task store
\* is as it was when the request arrived, no composition call is made, and
\* handleMessage returns the error reply, which the route sends with status 200.
C9_SelectionFailureAborts ==
    SelectionFailed =>
        /\ calls = <<>>
        /\ toolResults = <<>>
        /\ db.calls = 0
        /\ db.tasks = db.atRequest
        /\ Len(modelCalls) = 1
        /\ response = Returned(S(ERROR_REPLY), Undefined)
        /\ pc \in {"store", "respond", "done"}
        /\ pc = "done" =>
              /\ res.status = 200
              /\ res.body = O([reply |-> S(ERROR_REPLY), optional_data |-> Undefined])

\* the second request's selection call failed after the first request added
\* a task, and the error reply was sent
C9_Witness ==
    /\ SelectionFailed
    /\ pc = "done"
    /\ requests = 2
    /\ db.tasks # InitialTasks
    /\ res.body = O([reply |-> S(ERROR_REPLY), optional_data |-> Undefined])

\* some collaborator beyond the identity provider has been called for the request
CollaboratorCalled == modelCalls # <<>> \/ db.calls > 0 \/ memoryCalls > 0 \/ calls # <<>>

\* C10: the model, the task store and the conversation store are called only
\* for a request with both fields non-empty whose identity lookup answered
\* with a registered user; a request lacking a field gets 400 'user_id and
\* message are required' without any collaborator call, identity lookup
\* included; an unknown user or a failing lookup gets 401 'Invalid user'.
C10_RouteGate ==
    /\ CollaboratorCalled =>
          /\ Truthy(req.user_id) /\ Truthy(req.message)
          /\ Len(identityCalls) = 1
          /\ identityCalls[1] = "answers"
          /\ req.user_id.v \in RegisteredUsers
    /\ (pc # "idle" /\ (~Truthy(req.user_id) \/ ~Truthy(req.message))) =>
          /\ pc = "done"
          /\ res = [status |-> 400, body |-> O([error |-> S("user_id and message are required")])]
          /\ identityCalls = <<>>
          /\ ~CollaboratorCalled
    /\ (identityCalls # <<>> /\
            (identityCalls[1] # "answers" \/ ToText(req.user_id) \notin RegisteredUsers)) =>
          /\ pc = "done"
          /\ res = [status |-> 401, body |-> O([error |-> S("Invalid user")])]
          /\ ~CollaboratorCalled

\* an unregistered user was turned away with 401 although the identity
\* provider answered, after an earlier request had been served
C10_Witness ==
    /\ pc = "done"
    /\ requests = 2
    /\ req.user_id = S("ghost")
    /\ identityCalls = <<"answers">>
    /\ res.status = 401
    /\ ~CollaboratorCalled

\* C11: whatever happens to the two conversation writes, a request for which
\* handleMessage returned a response is answered with status 200 and exactly
\* that response (same reply, same optional data).
C11_BestEffortWrites ==
    (pc = "done" /\ response.state = "returned") =>
        /\ res.status = 200
        /\ res.body = O([reply |-> response.reply, optional_data |-> response.optional_data])

\* the write of the user turn was attempted and failed (no row was added),
\* and the composed reply with its tool results was sent all the same
C11_Witness ==
    /\ pc = "done"
    /\ memoryCalls = 2
    /\ memories = InitialMemories
    /\ response.reply = S("Done.")
    /\ res.status = 200
    /\ res.body = O([reply |-> S("Done."), optional_data |-> O([tool_results |-> A(toolResults)])])
    /\ toolResults # <<>>

\* C12: no step removes or changes a row of the conversation log: the log
\* before the step is a prefix of the log after it, and a step adds at most
\* two rows (the two writes of a request).
C12_AppendOnly ==
    [][/\ Len(memories') >= Len(memories)
       /\ Len(memories') <= Len(memories) + 2
       /\ SubSeq(memories', 1, Len(memories)) = memories]_vars

\* two turns of a user were written after the rows the log already held
C12_Witness ==
    /\ Len(memories) = Len(InitialMemories) + 2
    /\ SubSeq(memories, 1, Len(InitialMemories)) = InitialMemories
    /\ memories[Len(memories) - 1] =
          [user_id |-> S("u1"), content |-> S("User: plan my day"), role |-> S("user")]
    /\ memories[Len(memories)] =
          [user_id |-> S("u1"), content |-> S("AI: Here is your plan"), role |-> S("ai")]

\* the tasks a check_deadline_risks invocation looks at: those of the user
\* that have a due date, among the ids it names when it names any
RiskCandidates(call) ==
    {r \in db.tasks :
        /\ r.user_id = req.user_id
        /\ r.due_date.t = "string"
        /\ LengthOrZero(Prop(call.args, "task_ids")) > 0 =>
              \E k \in DOMAIN call.args.task_ids.v : r.id = N(ParseId(call.args.task_ids.v[k]))}

\* the threshold of the invocation: 7 when it gives none
RiskThreshold(call) ==
    IF "threshold_days" \in DOMAIN call.args THEN call.args.threshold_days.v ELSE 7

\* the least number of whole days that covers the hours from `now` to the
\* midnight that starts the due day
DaysUntilDue(r, now) ==
    CHOOSE d \in -400..400 :
        /\ d * 24 >= DateDay(r.due_date.v) * 24 - now
        /\ (d - 1) * 24 < DateDay(r.due_date.v) * 24 - now

\* the risk entry of a task: days until due, at risk, overdue
RiskEntry(r, now, threshold) ==
    O([task_id |-> r.id,
       task_title |-> r.content,
       due_date |-> r.due_date,
       days_until_due |-> N(DaysUntilDue(r, now)),
       at_risk |-> B(0 <= DaysUntilDue(r, now) /\ DaysUntilDue(r, now) <= threshold),
       overdue |-> B(DaysUntilDue(r, now) < 0)])

\* C13: a successful check_deadline_risks with schema-conforming arguments
\* returns exactly one entry for each due-dated task of the user that is at
\* risk or overdue, with days_until_due = ceil((due - now) / one day),
\* at_risk iff 0 <= days_until_due <= threshold (7 when none is given) and
\* overdue iff days_until_due < 0; total_at_risk counts the entries.
C13_DeadlineRisks ==
    \A i \in DOMAIN calls :
        (/\ calls[i].toolCall.name = "check_deadline_risks"
         /\ Call(calls[i].toolCall.name, calls[i].toolCall.arguments) \in ValidCalls
         /\ calls[i].state = "fulfilled"
         /\ IsSuccessOutput(OutputOf(calls[i]))) =>
            /\ Range(OutputOf(calls[i]).v.risks.v.risks.v) =
                  {e \in {RiskEntry(r, calls[i].env.now, RiskThreshold(calls[i])) :
                              r \in RiskCandidates(calls[i])} :
                      e.v.at_risk.v \/ e.v.overdue.v}
            /\ Len(OutputOf(calls[i]).v.risks.v.risks.v) =
                  Cardinality(Range(OutputOf(calls[i]).v.risks.v.risks.v))
            /\ OutputOf(calls[i]).v.risks.v.total_at_risk =
                  N(Len(OutputOf(calls[i]).v.risks.v.risks.v))

\* the clock stands one day after the due date of task 1 and six days before
\* that of task 2, threshold 7: task 1 is overdue by one day and not at
\* risk, task 2 is at risk
C13_Witness ==
    \E i \in DOMAIN calls :
        /\ calls[i].toolCall.name = "check_deadline_risks"
        /\ calls[i].state = "fulfilled"
        /\ calls[i].env.now = 48
        /\ calls[i].args = [threshold_days |-> N(7)]
        /\ OutputOf(calls[i]).v.risks.v.total_at_risk = N(2)
        /\ \E k \in 1..2 :
              /\ OutputOf(calls[i]).v.risks.v.risks.v[k].v.task_id = N(1)
              /\ OutputOf(calls[i]).v.risks.v.risks.v[k].v.days_until_due = N(-1)
              /\ OutputOf(calls[i]).v.risks.v.risks.v[k].v.at_risk = B(FALSE)
              /\ OutputOf(calls[i]).v.risks.v.risks.v[k].v.overdue = B(TRUE)

\* the store calls target j of a bulk update makes: a read and a write for a
\* relabel that adds labels, a write for archive and delete, none otherwise
BulkStoreCalls(call, j) ==
    CASE Prop(call.args, "operation") = S("relabel")
            /\ Truthy(OptProp(Prop(call.args, "params"), "labels_add")) -> {2 * j - 1, 2 * j}
      [] Prop(call.args, "operation") \in {S("archive"), S("delete")} -> {2 * j}
      [] OTHER -> {}

\* the targets of a bulk update for which a store call answered with an error
BulkErrored(call) ==
    {j \in DOMAIN call.args.task_ids.v :
        \E k \in BulkStoreCalls(call, j) : call.env.sos[k].error}

\* a bulk update that ran over a non-empty list of targets
IsBulkRun(call) ==
    /\ call.toolCall.name = "bulk_update_tasks"
    /\ call.state = "fulfilled"
    /\ IsSuccessOutput(OutputOf(call))
    /\ call.args.task_ids.t = "array"

\* C14: a bulk update over a non-empty list of targets counts every target
\* once (success + failed = number of targets, one error entry per failed
\* target), counts as failed every target for which a store operation
\* answered with an error, and leaves every archived target whose store
\* operation succeeded with status archived in the store.
C14_PartialSuccess ==
    \A i \in DOMAIN calls :
        IsBulkRun(calls[i]) =>
            /\ OutputOf(calls[i]).v.results.v.success.v
                    + OutputOf(calls[i]).v.results.v.failed.v
                  = Len(calls[i].args.task_ids.v)
            /\ Len(OutputOf(calls[i]).v.results.v.errors.v)
                  = OutputOf(calls[i]).v.results.v.failed.v
            /\ OutputOf(calls[i]).v.results.v.failed.v
                  >= Cardinality(BulkErrored(calls[i]))
            /\ calls[i].args.operation = S("archive") =>
                  \A j \in DOMAIN calls[i].args.task_ids.v :
                      j \notin BulkErrored(calls[i]) =>
                          \A r \in db.tasks :
                              (/\ r.user_id = req.user_id
                               /\ r.id = N(ParseId(calls[i].args.task_ids.v[j])))
                                  => r.status = S("archived")

\* the same for the operations that make one store call for a target
C14_SingleCallOperations ==
    \A i \in DOMAIN calls :
        (/\ IsBulkRun(calls[i])
         /\ calls[i].args.operation # S("relabel")) =>
            /\ OutputOf(calls[i]).v.results.v.success.v
                    + OutputOf(calls[i]).v.results.v.failed.v
                  = Len(calls[i].args.task_ids.v)
            /\ Len(OutputOf(calls[i]).v.results.v.errors.v)
                  = OutputOf(calls[i]).v.results.v.failed.v
            /\ OutputOf(calls[i]).v.results.v.failed.v
                  = Cardinality(BulkErrored(calls[i]))

\* three targets, the store fails the second: 2 succeeded, 1 failed, 1 error
\* entry, and the other target of the user is archived
C14_ThreeTargets ==
    \E i \in DOMAIN calls :
        /\ IsBulkRun(calls[i])
        /\ calls[i].args.operation = S("archive")
        /\ Len(calls[i].args.task_ids.v) = 3
        /\ BulkErrored(calls[i]) = {2}
        /\ OutputOf(calls[i]).v.results.v.success = N(2)
        /\ OutputOf(calls[i]).v.results.v.failed = N(1)
        /\ Len(OutputOf(calls[i]).v.results.v.errors.v) = 1
        /\ \E r \in db.tasks : r.id = N(1) /\ r.status = S("archived")

\* a relabel of task 1 whose read fails at the store and whose write
\* succeeds: the target is counted as succeeded, no error entry names it, and
\* the labels the task had are replaced by the added ones
C14_RelabelReadErrorIgnored ==
    \E i \in DOMAIN calls :
        /\ IsBulkRun(calls[i])
        /\ calls[i].args.operation = S("relabel")
        /\ calls[i].args.task_ids.v[1] = S("1")
        /\ calls[i].env.sos[1].error
        /\ ~calls[i].env.sos[2].error
        /\ 1 \in BulkErrored(calls[i])
        /\ OutputOf(calls[i]).v.results.v.success = N(1)
        /\ Len(OutputOf(calls[i]).v.results.v.errors.v) = 1
        /\ \E r \in db.tasks :
              /\ r.id = N(1)
              /\ r.user_id = req.user_id
              /\ r.labels = A(<<S("urgent"), S("work")>>)

\* the stored turns of the requesting user, oldest first
StoredTurns == SelectSeq(memories, LAMBDA row : row.user_id = req.user_id)

\* the number of stored turns the transcript takes
TurnsTaken == IF Len(StoredTurns) < 30 THEN Len(StoredTurns) ELSE 30

UpdateTarget(call) == OrElse(Prop(call.args, "task_id"), Prop(call.args, "fuzzy_key"))

\* a settled update_task invocation with schema-conforming arguments whose
\* identifier matched no task of the requesting user when the request arrived
UpdatesNoRow(call) ==
    /\ call.toolCall.name = "update_task"
    /\ Call(call.toolCall.name, call.toolCall.arguments) \in ValidCalls
    /\ call.state = "fulfilled"
    /\ ~\E r \in db.atRequest :
            r.user_id = req.user_id /\ r.id = N(ParseId(UpdateTarget(call)))

\* C16: an update_task invocation whose identifier matches no task of the
\* requesting user reports {success: false, error: <message>}.
C16_UpdateNotFound ==
    \A i \in DOMAIN calls :
        UpdatesNoRow(calls[i]) => IsFailureOutput(OutputOf(calls[i]))

\* update_task names task 4, which does not exist; the store accepts the
\* update, no row changes, and the invocation reports success
C16_ReportedAsSuccess ==
    \E i \in DOMAIN calls :
        /\ UpdatesNoRow(calls[i])
        /\ UpdateTarget(calls[i]) = S("4")
        /\ ~calls[i].env.sos[1].error
        /\ db.tasks = db.atRequest
        /\ OutputOf(calls[i]) =
              O([success |-> B(TRUE), message |-> S("Task updated successfully")])

\* a create_task invocation that returned {success: true, task_id: n}
Created(call) ==
    /\ call.toolCall.name = "create_task"
    /\ call.state = "fulfilled"
    /\ IsSuccessOutput(OutputOf(call))

\* a list_tasks invocation without a filter that returned its rows
ListedAll(call) ==
    /\ call.toolCall.name = "list_tasks"
    /\ call.state = "fulfilled"
    /\ IsSuccessOutput(OutputOf(call))
    /\ ~Truthy(Prop(call.args, "filter"))

\* C17: a create_task that returns {success: true, task_id: n} inserts
\* exactly one row, with id n, owned by the requesting user, with status
\* 'open' and the title as content; a list_tasks without a filter that
\* settles after it returns a task with id n and that content (the listing
\* holds every row of the user that the store held when it ran).
C17_CreateThenList ==
    [][\A i \in DOMAIN calls \cap DOMAIN calls' :
          (calls[i].state # "fulfilled" /\ calls'[i].toolCall = calls[i].toolCall) =>
            /\ Created(calls'[i]) =>
                  /\ Cardinality(db'.tasks \ db.tasks) = 1
                  /\ db.tasks \subseteq db'.tasks
                  /\ \A r \in db'.tasks \ db.tasks :
                        /\ r.id = OutputOf(calls'[i]).v.task_id
                        /\ \A q \in db.tasks : q.id # r.id
                        /\ r.user_id = req.user_id
                        /\ r.status = S("open")
                        /\ r.content = Prop(calls[i].args, "title")
            /\ ListedAll(calls'[i]) =>
                  /\ \A k \in DOMAIN calls :
                        Created(calls[k]) =>
                            \E e \in Range(OutputOf(calls'[i]).v.tasks.v) :
                                /\ e.v.id = OutputOf(calls[k]).v.task_id
                                /\ e.v.content = Prop(calls[k].args, "title")
                  /\ \A r \in db.tasks :
                        r.user_id = req.user_id =>
                            O(r) \in Range(OutputOf(calls'[i]).v.tasks.v)]_vars

\* one batch created task 3 titled "buy milk" and then listed the tasks of
\* the user: the listing holds task 3 with that content
C17_Witness ==
    /\ Len(calls) = 2
    /\ Created(calls[1])
    /\ OutputOf(calls[1]).v.task_id = N(3)
    /\ ListedAll(calls[2])
    /\ \E e \in Range(OutputOf(calls[2]).v.tasks.v) :
          e.v.id = N(3) /\ e.v.content = S("buy milk") /\ e.v.status = S("open")

\* the response body carries a structured response with an ai_summary
CarriesStructuredResponse ==
    /\ OptProp(res.body, "structured_response").t = "object"
    /\ OptProp(OptProp(res.body, "structured_response"), "ai_summary").t = "string"

\* the response body carries the raw outputs of the batch as they were returned
CarriesRawOutputs ==
    OptProp(OptProp(res.body, "optional_data"), "tool_results") = A(toolResults)

\* the response body carries something besides the reply and the raw
\* outputs that could tell a caller it is a fallback
MarkedAsFallback ==
    \/ DOMAIN res.body.v \ {"reply", "optional_data"} # {}
    \/ /\ OptProp(res.body, "optional_data").t = "object"
       /\ DOMAIN OptProp(res.body, "optional_data").v \ {"tool_results"} # {}

\* C18: the response to a request whose selection call proposed a batch is
\* sent with status 200 and carries either a structured response with an
\* ai_summary or the raw outputs of the batch marked as a fallback.
C18_StructuredOrFallback ==
    (pc = "done" /\ BatchSettled /\ response.state = "returned") =>
        /\ res.status = 200
        /\ \/ CarriesStructuredResponse
           \/ CarriesRawOutputs /\ MarkedAsFallback

\* every invocation of the batch was fulfilled and the composition call
\* succeeded: the body is {reply, optional_data: {tool_results}} and nothing
\* in it tells a validated response from a fallback
C18_RawOutputsUnmarked ==
    /\ pc = "done"
    /\ BatchSettled
    /\ \A i \in DOMAIN calls : calls[i].state = "fulfilled"
    /\ \A k \in CompositionCalls : ~modelCalls[k].failed
    /\ res.status = 200
    /\ DOMAIN res.body.v = {"reply", "optional_data"}
    /\ CarriesRawOutputs
    /\ ~CarriesStructuredResponse
    /\ ~MarkedAsFallback

\* a settled delete_task invocation that names a task the requesting user
\* owned when the request arrived
DeletesOwnTask(call) ==
    /\ call.toolCall.name = "delete_task"
    /\ call.state = "fulfilled"
    /\ \E r \in db.atRequest :
          r.user_id = req.user_id /\ r.id = N(ParseId(Prop(call.args, "task_id")))

\* C19: a delete_task invocation that names a task of the requesting user
\* removes the row and reports success with the task id.
C19_DeleteTask ==
    \A i \in DOMAIN calls :
        DeletesOwnTask(calls[i]) =>
            /\ IsSuccessOutput(OutputOf(calls[i]))
            /\ ParseId(Prop(OutputOf(calls[i]).v, "task_id"))
                  = ParseId(Prop(calls[i].args, "task_id"))
            /\ ~\E r \in db.tasks :
                  r.user_id = req.user_id /\ r.id = N(ParseId(Prop(calls[i].args, "task_id")))

\* delete_task for task 1 of u1 is answered with "Unknown tool" and the row
\* is still in the store
C19_UnknownTool ==
    \E i \in DOMAIN calls :
        /\ DeletesOwnTask(calls[i])
        /\ Prop(calls[i].args, "task_id") = N(1)
        /\ OutputOf(calls[i]) = O([success |-> B(FALSE), error |-> S("Unknown tool")])
        /\ db.calls = 0
        /\ db.tasks = db.atRequest

\* store outcomes without an error, for a run of a bulk update on its own
NoStoreErrors == [k \in 1..MaxStoreCalls |-> StoreOk]

\* the batch run one invocation after the other, first then second, from
\* the store as it was when the request arrived
SerialFirst ==
    bulkUpdateTasks([db EXCEPT !.tasks = db.atRequest], req.user_id.v, calls[1].args,
                    NoStoreErrors)

SerialSecond == bulkUpdateTasks(SerialFirst.db, req.user_id.v, calls[2].args, NoStoreErrors)

\* the labels of every task, as sets
LabelSets(tasks) == {<<r.id, Range(Elems(r.labels))>> : r \in tasks}

\* both invocations of a relabel batch have returned and no store call of
\* theirs met an error
RelabelBatchDone ==
    /\ Len(calls) = 2
    /\ \A i \in DOMAIN calls :
          /\ calls[i].toolCall.name = "bulk_update_tasks"
          /\ calls[i].state = "fulfilled"
          /\ calls[i].frame.at = "returned"
          /\ \A k \in DOMAIN calls[i].env.sos : ~calls[i].env.sos[k].error

\* C20: whatever the interleaving of the store reads and writes of the two
\* invocations of a batch, the task store ends as it does when they run one
\* after the other, each invocation returns what it returns then, and every
\* label an invocation added to a task of the user is on that task.
C20_InterleavingIndependent ==
    RelabelBatchDone =>
        /\ LabelSets(db.tasks) = LabelSets(SerialSecond.db.tasks)
        /\ OutputOf(calls[1]).v.results = SerialFirst.value
        /\ OutputOf(calls[2]).v.results = SerialSecond.value
        /\ \A i \in DOMAIN calls :
              \A j \in DOMAIN calls[i].args.task_ids.v :
                  \A r \in db.tasks :
                      (/\ r.user_id = req.user_id
                       /\ r.id = N(ParseId(calls[i].args.task_ids.v[j])))
                          => Range(Elems(calls[i].args.params.v.labels_add))
                                \subseteq Range(Elems(r.labels))

\* both invocations read the labels ["work"] of task 1 before either wrote:
\* the second write replaces the first, and the label "urgent" that the
\* first invocation added and reported as a success is gone
C20_LostLabel ==
    /\ RelabelBatchDone
    /\ calls[1].args.task_ids = A(<<S("1")>>)
    /\ calls[2].args.task_ids = A(<<S("1")>>)
    /\ calls[1].args.params.v.labels_add = A(<<S("urgent")>>)
    /\ calls[2].args.params.v.labels_add = A(<<S("home")>>)
    /\ OutputOf(calls[1]).v.results.v.success = N(1)
    /\ OutputOf(calls[2]).v.results.v.success = N(1)
    /\ \E r \in db.tasks :
          r.id = N(1) /\ r.labels = A(<<S("work"), S("home")>>)

\* a call of detectIntent has settled
IntentCall ==
    /\ pc = "done"
    /\ modelCalls # <<>>
    /\ modelCalls[1].kind \in {"groq_text", "groq_json", "ollama"}

\* the answer of the model as the version reads it: the content, or the
\* intent property of the value the content encodes
IntentAnswer ==
    IF modelCalls[1].kind = "groq_text" THEN OptProp(responseMessage, "content")
    ELSE IF OptProp(responseMessage, "content").t = "json"
    THEN OptProp(OptProp(responseMessage, "content").v, "intent")
    ELSE Undefined

\* the texts that differ from the intent name n only in surrounding white
\* space and letter case
Spellings(n) ==
    {n} \cup (CASE n = "add_task" -> {"ADD_TASK", " add_task "}
                [] n = "list_tasks" -> {"List_Tasks"}
                [] n = "smalltalk" -> {" Smalltalk"}
                [] OTHER -> {})

StructuredCall ==
    /\ pc = "done"
    /\ modelCalls # <<>> => modelCalls[1].kind = "structured_output"

\* C22: structured_output called with a key of RESPONSE_FORMAT resolves to
\* the content of the provider's message, unchanged; when the name is no key
\* (the provider is then not called), the provider call fails or its answer
\* holds no message, it rejects with 'No valid response from AI'.
C22_StructuredOutput ==
    StructuredCall =>
        /\ req.tool_name \notin ResponseFormatNames =>
              /\ modelCalls = <<>>
              /\ response = Rejection("No valid response from AI")
        /\ req.tool_name \in ResponseFormatNames =>
              /\ Len(modelCalls) = 1
              /\ (modelCalls[1].failed \/ responseMessage.t = "undefined") =>
                    response = Rejection("No valid response from AI")
              /\ (~modelCalls[1].failed /\ responseMessage.t = "object") =>
                    /\ response.state = "returned"
                    /\ response.reply = OptProp(responseMessage, "content")
                    /\ response.optional_data = Undefined

\* the call for list_tasks resolved to the content '{"test": "response"}'
\* that the provider's message held
C22_Witness ==
    /\ StructuredCall
    /\ req.tool_name = "list_tasks"
    /\ OptProp(responseMessage, "content") = JsonContent(O([test |-> S("response")]))
    /\ response = Returned(JsonContent(O([test |-> S("response")])), Undefined)

\* the rank of a priority name, P0 the highest
PriorityLevel(v) ==
    CASE v = S("P0") -> 0 [] v = S("P1") -> 1 [] v = S("P2") -> 2 [] v = S("P3") -> 3
      [] OTHER -> 4

\* a list_tasks invocation that returned its rows and whose only filter is
\* priority_at_least
ListedByPriority(call) ==
    /\ call.toolCall.name = "list_tasks"
    /\ call.state = "fulfilled"
    /\ IsSuccessOutput(OutputOf(call))
    /\ Truthy(OptProp(Prop(call.args, "filter"), "priority_at_least"))
    /\ \A k \in {"due_before", "due_after", "status", "labels_any"} :
          ~Truthy(OptProp(Prop(call.args, "filter"), k))

\* C23: list_tasks with only filter.priority_at_least = p returns exactly
\* the tasks of the requesting user whose priority is p or higher, P0 being
\* the highest.
C23_PriorityAtLeast ==
    \A i \in DOMAIN calls :
        ListedByPriority(calls[i]) =>
            {e.v.id : e \in Range(OutputOf(calls[i]).v.tasks.v)} =
                {r.id : r \in {q \in db.tasks :
                    /\ q.user_id = req.user_id
                    /\ PriorityLevel(q.priority)
                          <= PriorityLevel(calls[i].args.filter.v.priority_at_least)}}

\* list_tasks with priority_at_least = P1 over tasks 1 (P0), 2 (P1) and
\* 3 (P2) returns tasks 2 and 3: the P0 task is missing, the P2 task is there
C23_LowerPrioritiesReturned ==
    \E i \in DOMAIN calls :
        /\ ListedByPriority(calls[i])
        /\ calls[i].args.filter.v.priority_at_least = S("P1")
        /\ db.tasks = PriorityTasks
        /\ {e.v.id : e \in Range(OutputOf(calls[i]).v.tasks.v)} = {N(2), N(3)}

\* a bulk update that was asked to preview only
IsPreview(call) ==
    /\ call.toolCall.name = "bulk_update_tasks"
    /\ call.state = "fulfilled"
    /\ Prop(call.args, "preview_only") = B(TRUE)

\* C24: a bulk update with preview_only = true commits nothing: every task
\* row is the same after the operation as before it.
C24_PreviewCommitsNothing ==
    \A i \in DOMAIN calls : IsPreview(calls[i]) => db.tasks = db.atRequest

\* a preview of the deletion of task 1 removes the row and counts it as done
C24_PreviewDeletes ==
    \E i \in DOMAIN calls :
        /\ IsPreview(calls[i])
        /\ calls[i].args.operation = S("delete")
        /\ \E r \in db.atRequest : r.id = N(1) /\ r.user_id = req.user_id
        /\ ~\E r \in db.tasks : r.id = N(1)
        /\ OutputOf(calls[i]).v.results.v.success = N(1)

\* an update_task invocation that returned {success: true}
Updated(call) ==
    /\ call.toolCall.name = "update_task"
    /\ call.state = "fulfilled"
    /\ IsSuccessOutput(OutputOf(call))

\* row r after the fields of `set` that carry a non-null value are written to
\* their columns (a due date is stored as its day)
RowAfterSet(r, set) ==
    [c \in DOMAIN r |->
        IF /\ c \in {"content", "due_date", "priority", "labels", "duration_minutes",
                     "notes", "status"}
           /\ ~IsNullish(OptProp(set, UpdateField(c)))
        THEN (IF c = "due_date" /\ IsDateText(OptProp(set, "due"))
              THEN S(DateColumn(OptProp(set, "due").v))
              ELSE OptProp(set, UpdateField(c)))
        ELSE r[c]]

\* C25: an update_task that succeeds writes to the target row of the
\* requesting user exactly the fields of `set` that carry a non-null value
\* (title to content, due to due_date, the others under their own name) and
\* leaves every other column, every other row and the rows of other users
\* as they were.
C25_UpdateWritesNonNull ==
    \A i \in DOMAIN calls :
        Updated(calls[i]) =>
            db.tasks =
                {IF r.user_id = req.user_id /\ r.id = N(ParseId(UpdateTarget(calls[i])))
                 THEN RowAfterSet(r, Prop(calls[i].args, "set")) ELSE r : r \in db.atRequest}

\* an update of task 1 with set = {notes: "", priority: "P3"} succeeds, writes
\* the priority and leaves the notes the row had
C25_EmptyNotesKept ==
    \E i \in DOMAIN calls :
        /\ Updated(calls[i])
        /\ Prop(calls[i].args, "set") = O([notes |-> S(""), priority |-> S("P3")])
        /\ \E r \in db.atRequest :
              /\ r.id = N(1) /\ r.user_id = req.user_id
              /\ r.notes = S("call Bob first")
              /\ [r EXCEPT !.priority = S("P3")] \in db.tasks

RECURSIVE Leaves(_)
\* the scalar values a JSON value holds, at any depth
Leaves(x) ==
    CASE x.t \in {"object", "array"} -> UNION {Leaves(x.v[k]) : k \in DOMAIN x.v}
      [] OTHER -> {x}

\* the rows of users other than the requesting one
RowsOfOthers(rows) == {r \in rows : r.user_id # req.user_id}

\* C26: while user A's invocation is executed no row of another user is
\* created, modified or deleted, and no output shows a row of another user:
\* a listing holds rows of A only, a priority score is computed from a row
\* of A, and no output (listing, risk check, score, bulk update) carries the
\* content of a row of another user.
C26_UserIsolation ==
    /\ RowsOfOthers(db.tasks) = RowsOfOthers(db.atRequest)
    /\ \A i \in DOMAIN calls :
          calls[i].state = "fulfilled" =>
            /\ \A r \in RowsOfOthers(db.atRequest) :
                  r.content \notin Leaves(OutputOf(calls[i]))
            /\ (calls[i].toolCall.name = "list_tasks" /\ IsSuccessOutput(OutputOf(calls[i]))) =>
                  \A e \in Range(OutputOf(calls[i]).v.tasks.v) : e.v.user_id = req.user_id
            /\ (/\ calls[i].toolCall.name = "calculate_priority_score"
                /\ IsSuccessOutput(OutputOf(calls[i]))) =>
                  \E r \in db.atRequest :
                      /\ r.user_id = req.user_id
                      /\ r.id = N(ParseId(calls[i].args.task_id))

\* a bulk delete by u1 of tasks 2 and 1, where task 2 belongs to u2: task 1
\* is removed and task 2 is still in the store
C26_Witness ==
    \E i \in DOMAIN calls :
        /\ IsBulkRun(calls[i])
        /\ calls[i].args.operation = S("delete")
        /\ calls[i].args.task_ids = A(<<S("2"), S("1")>>)
        /\ BulkErrored(calls[i]) = {}
        /\ \E r \in db.atRequest : r.id = N(1) /\ r.user_id = req.user_id
        /\ \E r \in RowsOfOthers(db.tasks) : r.id = N(2)
        /\ ~\E r \in db.tasks : r.id = N(1)

\* the answer of the default branch of executeToolCall
UnknownToolOutput == O([success |-> B(FALSE), error |-> S("Unknown tool")])

\* C27: every operation name of the catalog AI_TOOLS is handled by a branch
\* of its own: no invocation that names a catalog operation is answered
\* with 'Unknown tool'.
C27_CatalogHandled ==
    \A i \in DOMAIN calls :
        (calls[i].state = "fulfilled" /\ calls[i].toolCall.name \in CatalogNames) =>
            OutputOf(calls[i]) # UnknownToolOutput

\* get_audit_log, a catalog operation, is answered with 'Unknown tool'
\* without a store call
C27_AuditLogUnknown ==
    \E i \in DOMAIN calls :
        /\ calls[i].state = "fulfilled"
        /\ calls[i].toolCall.name = "get_audit_log"
        /\ calls[i].args = [export_format |-> S("csv")]
        /\ OutputOf(calls[i]) = UnknownToolOutput
        /\ db.calls = 0

\* a check_deadline_risks invocation that returned its entries
RisksChecked(call) ==
    /\ call.toolCall.name = "check_deadline_risks"
    /\ Call(call.toolCall.name, call.toolCall.arguments) \in ValidCalls
    /\ call.state = "fulfilled"
    /\ IsSuccessOutput(OutputOf(call))

\* C28: check_deadline_risks reports every task whose due instant is
\* strictly before now as overdue = true and at_risk = false, one that was
\* due less than 24 hours ago included, and no entry has at_risk and overdue
\* both true.
C28_PastDueIsOverdue ==
    \A i \in DOMAIN calls :
        RisksChecked(calls[i]) =>
            /\ \A r \in RiskCandidates(calls[i]) :
                  DateDay(r.due_date.v) * HoursPerDay < calls[i].env.now =>
                      \E e \in Range(OutputOf(calls[i]).v.risks.v.risks.v) :
                          /\ e.v.task_id = r.id
                          /\ e.v.overdue = B(TRUE)
                          /\ e.v.at_risk = B(FALSE)
            /\ \A e \in Range(OutputOf(calls[i]).v.risks.v.risks.v) :
                  ~(e.v.at_risk.v /\ e.v.overdue.v)

\* task 1 was due at hour 24 and the clock reads hour 36: its entry has
\* days_until_due = 0, at_risk = true and overdue = false
C28_DueTwelveHoursAgo ==
    \E i \in DOMAIN calls :
        /\ RisksChecked(calls[i])
        /\ calls[i].env.now = 36
        /\ \E r \in RiskCandidates(calls[i]) :
              /\ r.id = N(1)
              /\ r.due_date = S("2025-10-02")
              /\ \E e \in Range(OutputOf(calls[i]).v.risks.v.risks.v) :
                    /\ e.v.task_id = r.id
                    /\ e.v.days_until_due = N(0)
                    /\ e.v.at_risk = B(TRUE)
                    /\ e.v.overdue = B(FALSE)

\* no entry of a risk check has at_risk and overdue both true
C28_NeverBoth ==
    \A i \in DOMAIN calls :
        RisksChecked(calls[i]) =>
            \A e \in Range(OutputOf(calls[i]).v.risks.v.risks.v) :
                ~(e.v.at_risk.v /\ e.v.overdue.v)

\* the targets of a bulk update whose row, a row of the requesting user, was
\* changed or removed by it
BulkChanged(call) ==
    {j \in DOMAIN call.args.task_ids.v :
        \E r \in db.atRequest :
            /\ r.user_id = req.user_id
            /\ r.id = N(ParseId(call.args.task_ids.v[j]))
            /\ r \notin db.tasks}

\* C29: a bulk update counts a target as success only if its row was
\* changed or removed: targets of 'reassign' and 'reschedule' and targets
\* whose id matches no row are not counted in success.
C29_SuccessMeansChanged ==
    \A i \in DOMAIN calls :
        IsBulkRun(calls[i]) =>
            OutputOf(calls[i]).v.results.v.success.v <= Cardinality(BulkChanged(calls[i]))

\* a reassign of task 1 makes no store call, leaves every row as it was and
\* reports success = 1, failed = 0
C29_ReassignCounted ==
    \E i \in DOMAIN calls :
        /\ IsBulkRun(calls[i])
        /\ calls[i].args.operation = S("reassign")
        /\ calls[i].args.task_ids = A(<<S("1")>>)
        /\ db.calls = 0
        /\ db.tasks = db.atRequest
        /\ OutputOf(calls[i]).v.results.v.success = N(1)
        /\ OutputOf(calls[i]).v.results.v.failed = N(0)

\* an archive of tasks 1, 2 and 3, where no row has id 3 and the store
\* reports no error, reports success = 3
C29_MissingRowCounted ==
    \E i \in DOMAIN calls :
        /\ IsBulkRun(calls[i])
        /\ calls[i].args.operation = S("archive")
        /\ calls[i].args.task_ids = A(<<S("1"), S("2"), S("3")>>)
        /\ BulkErrored(calls[i]) = {}
        /\ ~\E r \in db.atRequest : r.id = N(3)
        /\ OutputOf(calls[i]).v.results.v.success = N(3)

\* the row a stored turn of the request adds to the conversation log
TurnRow(text, role) == [user_id |-> req.user_id, content |-> S(text), role |-> role]

====
